---- MODULE Spec2Model ----
(***************************************************************************)
(* Juice Box: grid dimension reduction, level generators, adjacency        *)
(* separation, the click-to-remove win round, the screen transitions of    *)
(* app.js, the liquid drain, the grid listeners and the sound and target   *)
(* helpers, modelled from the JavaScript sources.                          *)
(*                                                                         *)
(* The specifications share the module's variables:                        *)
(*   SpecDim       reduceDimensions, one loop iteration per step           *)
(*   SpecGen       the mode level generators on a resolved grid            *)
(*   SpecRound     a built level: cell activations, win timers, winLevel   *)
(*   SpecPearing   Perfect Pearing from its generator through its round    *)
(*   SpecSingle    the single-macguffin modes from generator through round *)
(*   SpecLevel     level.js generateLevel on its 3 x 7 grid                *)
(*   SpecGoBananas a Go Bananas level with the mode's own checkWin         *)
(*   SpecCatalog   the fill generators on catalogs that may be empty       *)
(*   SpecSeeded    Pick A Pair called twice on one stream of random draws  *)
(*   SpecSwitch    level starts across modes with different MAX_CELLS      *)
(*   SpecApp       app.js: screens, transitions, win and back actions      *)
(*   SpecAppLive   SpecApp with its timer callbacks firing                 *)
(*   SpecRoundBack SpecRound with returnToModeSelect                       *)
(*   SpecAdjacent  areAdjacent on a pair of positions, both ways round     *)
(*   SpecBackSpam  SpecApp with the back actions called under their guards *)
(*   SpecDrain     transitions.js: liquid drains, their callbacks, cancel  *)
(*   SpecGrid      one grid across levels: buildGrid and its listeners     *)
(*   SpecAudio     playRandomExcludingLast on one list and one ref         *)
(*   SpecExtra     addExtraTargetsByChance, one trial per step             *)
(* Each specification leaves at rest the variables it does not use.        *)
(***************************************************************************)
EXTENDS Integers, Sequences, FiniteSets, TLC

VARIABLES
    \* ---- reduceDimensions(desiredCols, desiredRows, maxCells) ----
    desiredCols,      \* parameter
    desiredRows,      \* parameter
    maxCells,         \* parameter
    actualColumns,    \* local: let actualColumns
    actualRows,       \* local: let actualRows
    totalCells,       \* local: let totalCells
    reductionPath,    \* history: the shapes the reduction has passed, desired shape first
    dimPc,            \* position in reduceDimensions: "begin", "loop", "check", "returned"
    \* ---- a mode's level generator ----
    ACTUAL_GRID_COLUMNS,  \* window.ACTUAL_GRID_COLUMNS, set by computeGridDimensions
    ACTUAL_GRID_ROWS,     \* window.ACTUAL_GRID_ROWS
    genMode,          \* the generator that runs
    sourceSprites,    \* the filler catalog the generator draws from (a mode's FILLER_SPRITES)
    chosen,           \* let chosen (kept in catalog order, see ChosenFor)
    macguffin,        \* let macguffin
    items,            \* let items: sprite names in display order
    attempt,          \* the for loop's counter
    swapIndex,        \* const swapIndex of the last swap, NoIndex when none was made
    adjacencyChecks,  \* history: evaluations of the loop's areAdjacent test (line 188)
    reshuffles,       \* history: executions of items = shuffle(chosen) inside the loop
    genPc,            \* "call", "loop", "returned", "threw", "diverged"
    \* ---- a built click-to-remove level ----
    gridSprites,      \* cell.dataset.sprite of the cells buildGrid created, in order
    removed,          \* the cells whose classList holds 'removed'
    fadeOut,          \* the cells whose classList holds 'fade-out'
    isTransitioning,  \* app.js: let isTransitioning
    touchStartCell,   \* setupTouchHandlers: let touchStartCell (NoCell for null)
    pressedCell,      \* gridEl.__pressedCell (NoCell for null)
    pendingOnWin,     \* timers set by the wrapped onWin that have not fired yet
    startLevelTimeoutId, \* app.js: a startLevel timer is scheduled
    lastResult,       \* history: what the last checkWin call returned
    lastCell,         \* history: the cell the last checkWin call was given (NoCell before any)
    winFadeStage,     \* winLevel's staged fade: "none", "macguffin" (first timer set), "drain" (second)
    lastWasRemoved,   \* history: the last checkWin call was given an already removed cell
    reactivated,      \* history: some checkWin call was given an already removed cell
    continues,        \* history: checkWin calls that returned undefined
    completes,        \* history: checkWin calls that returned true
    onWinCalls,       \* history: calls of the level's onWin handler
    winLevelCalls,    \* history: calls of winLevel for this built level
    activations,      \* history: checkWin calls made on this built level
    roundPc,          \* "level" while the built level is on screen, "next" after startLevel
    \* ---- two calls of a generator on one stream of Math.random() results ----
    randomDraws,      \* history: the Math.random() results the first call consumed, in order
    drawCursor,       \* how many results of the stream the running call has consumed
    runNumber,        \* 0 outside this part, 1 during the first call, 2 during the second
    firstLayout,      \* history: what the first call returned, <<items, macguffin>>
    \* ---- app.js: screens, transitions and their timers ----
    titleHidden, \* titleScreen.classList holds 'hidden' (the player is in a level)
    modeScreenHidden, \* modeScreen.classList holds 'hidden'
    isTransitioningToLevel, \* app.js: let isTransitioningToLevel
    isReturningToModeSelect, \* app.js: let isReturningToModeSelect
    isReturningToTitle, \* app.js: let isReturningToTitle
    currentMode, \* app.js: let currentMode ("null" before any mode button)
    modeTimer, \* the pending timer of startGameFromMode: "none", "outer" or "inner"
    returnTimer, \* the pending timer of returnToModeSelect: "none", "fade" or "linger"
    titleTimer, \* the timer of returnToTitle is pending
    macguffinFadeTimers, \* pending timers of winLevel's staged fade (MACGUFFIN_FADE_DELAY_MS)
    drainDelayTimers, \* pending timers of winLevel's staged fade that will call scheduleDrainAndLevel
    drainRunning, \* liquidOverlay.__drainCancel is set: a drain is in progress
    startLevelOrigin, \* history: who scheduled the pending startLevel timer: "none", "mode-select", "win"
    lastStartOrigin, \* history: who had scheduled the startLevel that ran last
    lastHandler, \* history: the handler or timer callback that ran last
    returnedNoClick, \* history: returnToModeSelect has run and no mode button was clicked since
    abortedNoClick, \* history: abortTransitionToLevel has run and no mode button was clicked since
    winState, \* history: "pending" from winLevel until startLevel runs, "backed" once a back action intervened
    isFirstLevelOfSession, \* app.js: let isFirstLevelOfSession
    lastSubmode, \* subtle-tea.js: let lastSubmode
    enteredNoStart, \* history: a mode button was clicked and startLevel has not run since
    submodeBeforeStart, \* history: lastSubmode as the startLevel that ran last found it
    \* ---- areAdjacent(pos1, pos2, numColumns), called both ways round ----
    adjPos1, \* argument pos1
    adjPos2, \* argument pos2
    adjColumns, \* argument numColumns
    adjacent, \* what areAdjacent(pos1, pos2, numColumns) returned
    adjacentSwapped, \* what areAdjacent(pos2, pos1, numColumns) returned
    adjPc, \* "idle", "call", "swapped", "returned"
    \* ---- liquid drain (transitions.js) ----
    drainCancel, \* liquidOverlay.__drainCancel: the drain whose cancel it holds (0 for null)
    drainStage, \* per drain started, in order: which of its callbacks is pending
    drainCancelled, \* per drain started, in order: let cancelled
    drainAudio, \* liquidOverlay.__drainAudio: the drain whose audio it holds (0 for null)
    overlayClasses, \* classes of liquidOverlay among visible, draining, hidden
    fadeTimeouts, \* drains whose cancel left a fade timeout pending
    transitionEnded, \* history: drains whose onTransitionEnd was called
    lateEffects, \* history: drains that added a class or ended after their cancel
    drainsStarted, \* history: showLiquidDrain calls so far
    drainStep, \* history: the last step of transitions.js
    \* ---- grid handlers across levels (buildGrid, setupTouchHandlers) ----
    touchHandlersSetup, \* gridEl.dataset.touchHandlersSetup
    listenerSets, \* history: setupTouchHandlers calls, each attaching one set of listeners
    levelHandlers, \* gridEl.__levelHandlers: the level whose callbacks it holds (0 for undefined)
    levelsBuilt, \* history: buildGrid calls so far; the cells in the grid are those of the last
    trackedCell, \* setupTouchHandlers: level of the cell in touchStartCell (0 for null)
    pressedCellLevel, \* level of the cell in gridEl.__pressedCell (0 for null)
    evaluatedWith, \* history: level whose checkWin and onWin took the last activation (0 for none)
    evaluatedCell, \* history: level of the cell that activation was about
    builtAtEvaluation, \* history: levelsBuilt when that activation was delivered
    deliveries, \* history: evaluations the last touchend caused
    gridStep, \* history: the last step of the grid
    \* ---- sounds without repeats (audio.js) ----
    audioSrcs, \* playRandomExcludingLast: srcs
    refLast, \* ref.last ("null" for null)
    lastPlayed, \* history: what the last call handed to playOneshot
    playedBefore, \* history: what the call before it handed to playOneshot
    plays, \* history: playRandomExcludingLast calls so far
    \* ---- addExtraTargetsByChance, trial by trial ----
    extraItems, \* addExtraTargetsByChance: items
    extraTarget, \* addExtraTargetsByChance: target
    extraRunsGiven, \* addExtraTargetsByChance: extraRuns
    extraTrial, \* addExtraTargetsByChance: i, the trials done
    extraStart, \* history: items as the call received them
    extraBefore, \* history: items before the last trial
    extraCoin, \* history: Math.random() < 0.5 in the last trial
    extraPc \* "idle", "loop", "returned"

dimVars == <<desiredCols, desiredRows, maxCells, actualColumns, actualRows,
             totalCells, reductionPath, dimPc>>

genVars == <<ACTUAL_GRID_COLUMNS, ACTUAL_GRID_ROWS, genMode, sourceSprites, chosen, macguffin,
             items, attempt, swapIndex, adjacencyChecks, reshuffles, genPc>>

roundVars == <<gridSprites, removed, fadeOut, isTransitioning, touchStartCell,
               pressedCell, pendingOnWin, startLevelTimeoutId, lastResult, lastCell,
               winFadeStage, lastWasRemoved, reactivated, continues, completes, onWinCalls,
               winLevelCalls, activations, roundPc>>

seedVars == <<randomDraws, drawCursor, runNumber, firstLayout>>

appVars == <<titleHidden, modeScreenHidden, isTransitioningToLevel, isReturningToModeSelect,
            isReturningToTitle, currentMode, modeTimer, returnTimer,
            titleTimer, macguffinFadeTimers, drainDelayTimers, drainRunning,
            startLevelOrigin, lastStartOrigin, lastHandler, returnedNoClick,
            abortedNoClick, winState, isFirstLevelOfSession, lastSubmode, enteredNoStart,
            submodeBeforeStart>>

adjVars == <<adjPos1, adjPos2, adjColumns, adjacent, adjacentSwapped, adjPc>>

drainVars == <<drainCancel, drainStage, drainCancelled, drainAudio, overlayClasses, fadeTimeouts, transitionEnded, lateEffects, drainsStarted, drainStep>>

gridVars == <<touchHandlersSetup, listenerSets, levelHandlers, levelsBuilt, trackedCell, pressedCellLevel, evaluatedWith, evaluatedCell, builtAtEvaluation, deliveries, gridStep>>

audioVars == <<audioSrcs, refLast, lastPlayed, playedBefore, plays>>

extraVars == <<extraItems, extraTarget, extraRunsGiven, extraTrial, extraStart, extraBefore, extraCoin, extraPc>>

utilVars == <<adjVars, drainVars, gridVars, audioVars, extraVars>>

vars == <<dimVars, genVars, roundVars, seedVars, appVars, utilVars>>

\* What a step of one part leaves alone.
DimFrame == UNCHANGED <<genVars, roundVars, seedVars, appVars, utilVars>>
GenFrame == UNCHANGED <<dimVars, roundVars, seedVars, appVars, utilVars>>
RoundFrame == UNCHANGED <<dimVars, genVars, seedVars, appVars, utilVars>>
SeedFrame == UNCHANGED <<dimVars, roundVars, appVars, utilVars>>
UtilFrame == UNCHANGED <<dimVars, genVars, roundVars, seedVars, appVars>>

SeedIdle ==
    /\ randomDraws = <<>>
    /\ drawCursor = 0
    /\ runNumber = 0
    /\ firstLayout = <<>>

\* app.js as loaded: the title screen shows, no mode is chosen, no timer is pending.
AppIdle ==
    /\ titleHidden = FALSE
    /\ modeScreenHidden = TRUE
    /\ isTransitioningToLevel = FALSE
    /\ isReturningToModeSelect = FALSE
    /\ isReturningToTitle = FALSE
    /\ currentMode = "null"
    /\ modeTimer = "none"
    /\ returnTimer = "none"
    /\ titleTimer = FALSE
    /\ macguffinFadeTimers = 0
    /\ drainDelayTimers = 0
    /\ drainRunning = FALSE
    /\ startLevelOrigin = "none"
    /\ lastStartOrigin = "none"
    /\ lastHandler = "load"
    /\ returnedNoClick = FALSE
    /\ abortedNoClick = FALSE
    /\ winState = "none"
    /\ isFirstLevelOfSession = FALSE
    /\ lastSubmode = "teacup"
    /\ enteredNoStart = FALSE
    /\ submodeBeforeStart = "teacup"

\* areAdjacent has not been called.
AdjIdle ==
    /\ adjPos1 = 0
    /\ adjPos2 = 0
    /\ adjColumns = 0
    /\ adjacent = FALSE
    /\ adjacentSwapped = FALSE
    /\ adjPc = "idle"

\* No liquid drain has been started.
DrainIdle ==
    /\ drainCancel = 0
    /\ drainStage = <<>>
    /\ drainCancelled = <<>>
    /\ drainAudio = 0
    /\ overlayClasses = {"hidden"}
    /\ fadeTimeouts = {}
    /\ transitionEnded = {}
    /\ lateEffects = {}
    /\ drainsStarted = 0
    /\ drainStep = "none"

\* No grid has been built.
GridIdle ==
    /\ touchHandlersSetup = FALSE
    /\ listenerSets = 0
    /\ levelHandlers = 0
    /\ levelsBuilt = 0
    /\ trackedCell = 0
    /\ pressedCellLevel = 0
    /\ evaluatedWith = 0
    /\ evaluatedCell = 0
    /\ builtAtEvaluation = 0
    /\ deliveries = 0
    /\ gridStep = "none"

\* No sound has been played.
AudioIdle ==
    /\ audioSrcs = <<>>
    /\ refLast = "null"
    /\ lastPlayed = "none"
    /\ playedBefore = "none"
    /\ plays = 0

\* addExtraTargetsByChance has not been called.
ExtraIdle ==
    /\ extraItems = <<>>
    /\ extraTarget = "none"
    /\ extraRunsGiven = 0
    /\ extraTrial = 0
    /\ extraStart = <<>>
    /\ extraBefore = <<>>
    /\ extraCoin = FALSE
    /\ extraPc = "idle"

\* The utilities and page parts below at rest: nothing of them has been called.
UtilIdle == AdjIdle /\ DrainIdle /\ GridIdle /\ AudioIdle /\ ExtraIdle

(***************************************************************************)
(* Bounds of the model.                                                    *)
(***************************************************************************)
\* Largest desired number of columns or rows handed to reduceDimensions.
MaxDesired == 20

\* Largest maxCells handed to reduceDimensions (0 is the caller's contract violation).
MaxBudget == MaxDesired * MaxDesired

\* Largest GRID_COLUMNS and GRID_ROWS a generator run is configured with.
MaxGridColumns == 3
MaxGridRows == 2

\* The filler lists are cut to their first FillerCount names.
FillerCount == 2

\* Largest grid of the fill-based generators (their MAX_CELLS is the whole desired grid).
MaxFillCells == 6

\* The cells of the built level, and the checkWin calls followed on it.
RoundCells == 3
MaxActivations == 4

\* The desired grid (GRID_COLUMNS x GRID_ROWS) of the mode-switching part, larger
\* than the duplicate modes' cell budgets so that the budgets differ.
SwitchGridColumns == 4
SwitchGridRows == 2

\* Math.random() results are the fractions 0/RandomLevels .. (RandomLevels-1)/RandomLevels,
\* and a first call consumes at most MaxDraws of them.
RandomLevels == 3
MaxDraws == 10

\* app.js: how many win timers nobody tracks may be pending at once.
MaxPendingTimers == 2

\* areAdjacent is called on positions 0..MaxPosition of grids 1..MaxAdjacentColumns wide.
MaxPosition == 11
MaxAdjacentColumns == 4

\* Most liquid drains started in one run.
MaxDrains == 3

\* Most levels built on one grid in one run.
MaxBuilds == 3

\* Longest source list handed to playRandomExcludingLast.
MaxSources == 3

\* Most playRandomExcludingLast calls in one run.
MaxPlays == 4

\* Longest items list handed to addExtraTargetsByChance on its own.
MaxExtraCells == 3

\* Largest extraRuns handed to addExtraTargetsByChance on its own.
MaxExtraRuns == 4

(***************************************************************************)
(* reduceDimensions                                                        *)
(***************************************************************************)
\* Mutation of ExceedsBudget: the loop stops one cell too early.
ExceedsBudgetOrEqual(cells, budget) == cells >= budget

ExceedsBudgetOffByOne(cells, budget) == cells > budget + 1

\* while (totalCells > maxCells)
ExceedsBudget(cells, budget) == cells > budget

\* Mutation of DecrementLarger: a tie shrinks the rows.
DecrementLargerRowsOnTie(columns, rows) ==
    IF columns > rows THEN <<columns - 1, rows>> ELSE <<columns, rows - 1>>

\* if (actualColumns >= actualRows) actualColumns--; else actualRows--;
DecrementLarger(columns, rows) ==
    IF columns >= rows THEN <<columns - 1, rows>> ELSE <<columns, rows - 1>>

\* The whole function, as computeGridDimensions calls it.
RECURSIVE reduceDimensions(_, _, _)
reduceDimensions(columns, rows, budget) ==
    IF ExceedsBudget(columns * rows, budget)
    THEN LET next == DecrementLarger(columns, rows)
         IN  reduceDimensions(next[1], next[2], budget)
    ELSE <<columns, rows>>

DimIdle ==
    /\ desiredCols = 0
    /\ desiredRows = 0
    /\ maxCells = 0
    /\ actualColumns = 0
    /\ actualRows = 0
    /\ totalCells = 0
    /\ reductionPath = <<>>
    /\ dimPc = "idle"

\* A call reduceDimensions(desiredCols, desiredRows, maxCells) about to run.
DimInit ==
    /\ desiredCols \in 1..MaxDesired
    /\ desiredRows \in 1..MaxDesired
    /\ maxCells \in 0..MaxBudget
    /\ actualColumns = 0
    /\ actualRows = 0
    /\ totalCells = 0
    /\ reductionPath = <<>>
    /\ dimPc = "begin"

\* let actualColumns = desiredCols; let actualRows = desiredRows;
\* let totalCells = actualColumns * actualRows; if (totalCells > maxCells) { while ...
ReduceBegin ==
    /\ dimPc = "begin"
    /\ actualColumns' = desiredCols
    /\ actualRows' = desiredRows
    /\ totalCells' = desiredCols * desiredRows
    /\ reductionPath' = <<(<<desiredCols, desiredRows>>)>>
    /\ dimPc' = IF ExceedsBudget(desiredCols * desiredRows, maxCells) THEN "loop" ELSE "check"
    /\ UNCHANGED <<desiredCols, desiredRows, maxCells>>
    /\ DimFrame

\* One iteration of the while loop, with the re-evaluation of its condition.
ReduceLoopStep ==
    /\ dimPc = "loop"
    /\ LET next == DecrementLarger(actualColumns, actualRows)
       IN  /\ actualColumns' = next[1]
           /\ actualRows' = next[2]
           /\ totalCells' = next[1] * next[2]
           /\ reductionPath' = Append(reductionPath, next)
           /\ dimPc' = IF ExceedsBudget(next[1] * next[2], maxCells) THEN "loop" ELSE "check"
    /\ UNCHANGED <<desiredCols, desiredRows, maxCells>>
    /\ DimFrame

\* The safety check only warns; return { actualColumns, actualRows }.
ReduceReturn ==
    /\ dimPc = "check"
    /\ dimPc' = "returned"
    /\ UNCHANGED <<desiredCols, desiredRows, maxCells, actualColumns, actualRows,
                   totalCells, reductionPath>>
    /\ DimFrame

DimNext ==
    \/ ReduceBegin
    \/ ReduceLoopStep
    \/ ReduceReturn

\* Number of unit decrements between the desired shape and a shape.
Decrements(columns, rows) == (desiredCols - columns) + (desiredRows - rows)

\* The claims' input domain: maxCells >= 1 (desired columns, rows >= 1 always).
ValidBudget == maxCells >= 1

Returned == dimPc = "returned"

\* A shape reachable from the desired shape by unit decrements of columns or rows.
ReachableShapes == (1..desiredCols) \X (1..desiredRows)

(***************************************************************************)
(* C3 as stated: the returned shape is reached by the minimum number of    *)
(* unit decrements: no shape reachable from the desired shape by fewer     *)
(* decrements of columns or rows fits maxCells.  The reduction refutes it: *)
(* desired 3 x 4 with maxCells 8 returns 2 x 3 after two decrements, while *)
(* 2 x 4 fits after one.                                                   *)
(***************************************************************************)
C3_MinimalDecrements ==
    (Returned /\ ValidBudget) =>
        \A shape \in ReachableShapes :
            Decrements(shape[1], shape[2]) < Decrements(actualColumns, actualRows)
                => shape[1] * shape[2] > maxCells

(***************************************************************************)
(* C3 amended: the returned shape is the first fitting shape on the        *)
(* reduction's own path.  The path starts at the desired shape, each shape *)
(* on it follows from the one before by decrementing the larger dimension  *)
(* (columns on a tie), every shape before the last exceeds maxCells, and   *)
(* the last one is the returned shape.                                     *)
(***************************************************************************)
C3_FirstFitOnLargerFirstPath ==
    (Returned /\ ValidBudget) =>
        /\ Len(reductionPath) = Decrements(actualColumns, actualRows) + 1
        /\ reductionPath[1] = <<desiredCols, desiredRows>>
        /\ reductionPath[Len(reductionPath)] = <<actualColumns, actualRows>>
        /\ \A k \in 1..(Len(reductionPath) - 1) :
              /\ reductionPath[k][1] * reductionPath[k][2] > maxCells
              /\ reductionPath[k + 1] =
                    IF reductionPath[k][1] >= reductionPath[k][2]
                    THEN <<reductionPath[k][1] - 1, reductionPath[k][2]>>
                    ELSE <<reductionPath[k][1], reductionPath[k][2] - 1>>

\* A reduction that returned after decrementing both dimensions.
C3_Witness ==
    /\ Returned /\ ValidBudget
    /\ actualColumns < desiredCols
    /\ actualRows < desiredRows

(***************************************************************************)
(* C4: for desired columns, rows in [1,20] and maxCells in [1,400] the     *)
(* returned shape has columns * rows <= maxCells.                          *)
(***************************************************************************)
C4_FitsBudget ==
    (Returned /\ ValidBudget) => actualColumns * actualRows <= maxCells

\* A reduction that had to shrink the grid and returned a shape within budget.
C4_Witness ==
    /\ Returned /\ ValidBudget
    /\ desiredCols * desiredRows > maxCells
    /\ actualColumns * actualRows <= maxCells
    /\ Len(reductionPath) > 2

(***************************************************************************)
(* Sprite catalog and grid utilities                                       *)
(***************************************************************************)
\* const ALL_SPRITES = [...]: the first five of the source's names.  A level of n
\* cells has n!/2 display orders, so the catalog is kept short; MAX_CELLS follows
\* from its length as in the source.
ALL_SPRITES == << "apple-gold", "apple-green", "apple-red", "avocado", "banana" >>

\* ALL_SPRITES.filter((s) => s !== 'cherries' && s !== 'leaves-falling')
NotCherriesNorLeaves(s) == s # "cherries" /\ s # "leaves-falling"
SPRITES_FOR_PICK_A_PAIR == SelectSeq(ALL_SPRITES, NotCherriesNorLeaves)

Range(seq) == {seq[i] : i \in 1..Len(seq)}

\* Perfect Pearing: FILLER_SPRITES and PEAR_SPRITES.
PearingFillerNames == << "apple-green", "apple-gold", "lime", "lemon", "melon" >>
PEARING_FILLER_SPRITES == Range(SubSeq(PearingFillerNames, 1, FillerCount))
PEAR_SPRITES == {"pear-green", "pear-gold"}

\* Subtle Tea: teacup submode.
TeacupFillerNames ==
    << "unjuicable/coffee", "unjuicable/cup-with-straw", "unjuicable/glass-of-milk",
       "leaves-falling" >>
TEACUP_FILLERS == Range(SubSeq(TeacupFillerNames, 1, FillerCount))
TEACUP_MACGUFFIN == "unjuicable/teacup"
TEAPOT_MACGUFFIN == "unjuicable/teapot"

\* Peach Party: FILLER_SPRITES and TARGET.
PeachFillerNames == << "apple-red", "tangerine", "mango" >>
PEACH_FILLER_SPRITES == Range(SubSeq(PeachFillerNames, 1, FillerCount))
PEACH_TARGET == "peach"

\* Go Bananas fills from ALL_SPRITES; its target is 'banana'.
BANANA_TARGET == "banana"

\* Subtle Tea, leaves and teapot submodes.
LeavesFillerNames == << "greens", "cherries", "apple-green", "lime", "pineapple" >>
LEAVES_FILLERS == Range(SubSeq(LeavesFillerNames, 1, FillerCount))
LEAVES_MACGUFFIN == "leaves-falling"
TeapotFillerNames == << "apple-red", "peach", "beet", "mango", "strawberry" >>
TEAPOT_FILLERS == Range(SubSeq(TeapotFillerNames, 1, FillerCount))

\* Apple of My Eye: APPLE_SPRITES and NON_APPLE_SPRITES = ALL_SPRITES.filter(...).
APPLE_SPRITES == {"apple-red", "apple-green"}
NotAnApple(s) == s # "apple-red" /\ s # "apple-green"
\* Mutation of NON_APPLE_SPRITES: the filter is missing.
NonAppleSpritesUnfiltered == Range(ALL_SPRITES)

NON_APPLE_SPRITES == Range(SelectSeq(ALL_SPRITES, NotAnApple))

\* Mutation of ensureTargetPresent: the layout is left as it was filled.
ensureTargetPresentSkipped(list, target) == {list}

\* ensureTargetPresent(items, target): the layouts it can leave behind.
ensureTargetPresent(list, target) ==
    IF \E i \in 1..Len(list) : list[i] = target
    THEN {list}
    ELSE {[list EXCEPT ![i] = target] : i \in 1..Len(list)}

\* One run of addExtraTargetsByChance's loop: the coin fails, or no non-target
\* cell is left, or one non-target cell becomes the target.
ExtraTargetRun(list, target) ==
    {list} \cup {[list EXCEPT ![i] = target] : i \in {j \in 1..Len(list) : list[j] # target}}

\* extraRuns = 3, the default every caller uses.
DefaultExtraRuns == 3

\* addExtraTargetsByChance(items, target, extraRuns): the layouts it can leave behind.
RECURSIVE addExtraTargetsByChance(_, _, _)
addExtraTargetsByChance(list, target, extraRuns) ==
    IF extraRuns = 0
    THEN {list}
    ELSE UNION {addExtraTargetsByChance(next, target, extraRuns - 1) :
                    next \in ExtraTargetRun(list, target)}

\* What chosen[...] yields on an empty array.
Undefined == "undefined"

\* macguffinIndices[k] of a missing entry, and swapIndex before any swap.
NoIndex == 0 - 1

Abs(n) == IF n < 0 THEN 0 - n ELSE n

\* Mutation of areAdjacent: the diagonal case is forgotten.
areAdjacentNoDiagonal(pos1, pos2, numColumns) ==
    LET rowDiff == Abs((pos1 \div numColumns) - (pos2 \div numColumns))
        colDiff == Abs((pos1 % numColumns) - (pos2 % numColumns))
    IN  \/ (rowDiff = 0 /\ colDiff = 1)
        \/ (colDiff = 0 /\ rowDiff = 1)

\* areAdjacent(pos1, pos2, numColumns): horizontally, vertically or diagonally adjacent.
areAdjacent(pos1, pos2, numColumns) ==
    LET row1 == pos1 \div numColumns
        col1 == pos1 % numColumns
        row2 == pos2 \div numColumns
        col2 == pos2 % numColumns
        rowDiff == Abs(row1 - row2)
        colDiff == Abs(col1 - col2)
        horizontallyAdjacent == rowDiff = 0 /\ colDiff = 1
        verticallyAdjacent == colDiff = 0 /\ rowDiff = 1
        diagonallyAdjacent == rowDiff = 1 /\ colDiff = 1
    IN  horizontallyAdjacent \/ verticallyAdjacent \/ diagonallyAdjacent

\* shuffle(array): Fisher-Yates can return every ordering of the array.
shuffle(array) ==
    {[i \in 1..Len(array) |-> array[p[i]]] : p \in Permutations(1..Len(array))}

\* fillWithRandom(count, sourceSprites): every cell an independent draw; on an empty
\* array sourceSprites[0] is undefined.
fillWithRandom(count, source) ==
    [1..count -> IF source = {} THEN {Undefined} ELSE source]

\* maxAttempts of the separation loop.
maxAttempts == 50

\* Each mode's MAX_CELLS, for a desired grid of columns x rows.
MAX_CELLS(mode, columns, rows) ==
    CASE mode = "pick-a-pair" -> Len(SPRITES_FOR_PICK_A_PAIR) + 1
      [] mode = "discover-the-duplicate" -> Len(ALL_SPRITES) + 1
      [] OTHER -> columns * rows

DuplicateModes == {"pick-a-pair", "discover-the-duplicate"}
FillModes == {"perfect-pearing", "subtle-tea-teacup", "subtle-tea-leaves",
              "subtle-tea-teapot", "apple-of-my-eye", "peach-party", "go-bananas"}
GenModes == DuplicateModes \cup FillModes

\* The catalog a duplicate mode draws from.
CatalogOf(mode) ==
    IF mode = "pick-a-pair" THEN SPRITES_FOR_PICK_A_PAIR ELSE ALL_SPRITES

TotalCells == ACTUAL_GRID_COLUMNS * ACTUAL_GRID_ROWS

(***************************************************************************)
(* Step 1 of the duplicate generators: which sprites fill the grid.        *)
(* shuffle(catalog).slice(0, n) is any n distinct sprites in any order,    *)
(* the macguffin any one of them, and chosen = [...chosen, macguffin].     *)
(* chosen is read again only by shuffle(chosen) and chosen.length, which   *)
(* do not depend on its order, so the model keeps the n sprites in catalog *)
(* order instead of one state per ordering.                                *)
(***************************************************************************)
\* Mutation of ChosenFor: the duplicate is not appended.
ChosenForNoDuplicate(catalog, subset, mac) ==
    SelectSeq(catalog, LAMBDA s : s \in subset)

ChosenFor(catalog, subset, mac) ==
    SelectSeq(catalog, LAMBDA s : s \in subset) \o <<mac>>

\* Mutation of NumUniqueSprites: the full-grid branch is taken for every grid.
NumUniqueSpritesAlwaysAll(cells, catalog) == Len(catalog)

\* totalCells >= MAX_CELLS ? every sprite : numUniqueSpritesNeeded = totalCells - 1
NumUniqueSprites(cells, catalog) ==
    IF cells >= Len(catalog) + 1 THEN Len(catalog) ELSE cells - 1

\* collectMacguffinIndices: the grid positions (0-based, ascending) holding the macguffin.
CollectMacguffinIndices(list, mac) ==
    LET RECURSIVE Collect(_)
        Collect(k) ==
            IF k > Len(list) THEN <<>>
            ELSE (IF list[k] = mac THEN <<k - 1>> ELSE <<>>) \o Collect(k + 1)
    IN  Collect(1)

\* Mutation of ValidSwapPositions: cells next to the first macguffin are allowed too.
ValidSwapPositionsAnyCell(list, indices, cols) ==
    {i \in 0..(Len(list) - 1) : i # indices[1] /\ i # indices[2]}

\* validSwapPositions: not a macguffin cell and not adjacent to the first macguffin.
ValidSwapPositions(list, indices, cols) ==
    {i \in 0..(Len(list) - 1) :
        /\ i # indices[1]
        /\ i # indices[2]
        /\ ~areAdjacent(indices[1], i, cols)}

\* Mutation of SwapCells: the target cell is overwritten, nothing is exchanged.
SwapCellsOverwrite(list, a, b) == [list EXCEPT ![b + 1] = list[a + 1]]

\* [items[a], items[b]] = [items[b], items[a]] on 0-based positions.
SwapCells(list, a, b) ==
    [list EXCEPT ![a + 1] = list[b + 1], ![b + 1] = list[a + 1]]

\* Mutation of LoopContinues: the loop never gives up.
LoopContinuesForever(n) == TRUE

\* attempt < maxAttempts, the for loop's condition.
LoopContinues(n) == n < maxAttempts

\* Mutation of MayReshuffle: the layout is never shuffled again.
MayReshuffleNever(n) == FALSE

\* if (attempt < maxAttempts - 1) items = shuffle(chosen);
MayReshuffle(n) == n < maxAttempts - 1

GenIdle ==
    /\ ACTUAL_GRID_COLUMNS = 0
    /\ ACTUAL_GRID_ROWS = 0
    /\ genMode = "none"
    /\ sourceSprites = {}
    /\ chosen = <<>>
    /\ macguffin = Undefined
    /\ items = <<>>
    /\ attempt = 0
    /\ swapIndex = NoIndex
    /\ adjacencyChecks = 0
    /\ reshuffles = 0
    /\ genPc = "idle"

\* computeGridDimensions(MAX_CELLS) has resolved the grid for the mode whose
\* generator is about to run.
GenInit ==
    /\ genMode \in GenModes
    /\ \E columns \in 1..MaxGridColumns, rows \in 1..MaxGridRows :
          /\ genMode \in FillModes => columns * rows <= MaxFillCells
          /\ LET shape == reduceDimensions(columns, rows, MAX_CELLS(genMode, columns, rows))
             IN  /\ ACTUAL_GRID_COLUMNS = shape[1]
                 /\ ACTUAL_GRID_ROWS = shape[2]
    /\ sourceSprites = {}
    /\ chosen = <<>>
    /\ macguffin = Undefined
    /\ items = <<>>
    /\ attempt = 0
    /\ swapIndex = NoIndex
    /\ adjacencyChecks = 0
    /\ reshuffles = 0
    /\ genPc = "call"

\* generateLevelForTheModeCalledPickAPair, up to the for loop: the guard on
\* totalCells < 2, Step 1, and the first shuffle into display order.
PickAPairBegin ==
    /\ genPc = "call"
    /\ genMode = "pick-a-pair"
    /\ IF TotalCells < 2
       THEN /\ genPc' = "threw"
            /\ UNCHANGED <<chosen, macguffin, items>>
       ELSE \E subset \in SUBSET Range(SPRITES_FOR_PICK_A_PAIR) :
                /\ Cardinality(subset) = NumUniqueSprites(TotalCells, SPRITES_FOR_PICK_A_PAIR)
                /\ \E mac \in subset :
                      /\ macguffin' = mac
                      /\ chosen' = ChosenFor(SPRITES_FOR_PICK_A_PAIR, subset, mac)
                      /\ items' \in shuffle(ChosenFor(SPRITES_FOR_PICK_A_PAIR, subset, mac))
                /\ genPc' = "loop"
    /\ UNCHANGED <<ACTUAL_GRID_COLUMNS, ACTUAL_GRID_ROWS, genMode, sourceSprites, attempt, swapIndex,
                   adjacencyChecks, reshuffles>>
    /\ GenFrame

\* One iteration of for (attempt = 0; attempt < maxAttempts; attempt++), with the
\* loop's exit: the final sanity checks only warn, then return { items, macguffin }.
PickAPairAttempt ==
    /\ genPc = "loop"
    /\ genMode = "pick-a-pair"
    /\ LoopContinues(attempt)
    /\ LET indices == CollectMacguffinIndices(items, macguffin)
           valid == ValidSwapPositions(items, indices, ACTUAL_GRID_COLUMNS)
       IN  /\ adjacencyChecks' = adjacencyChecks + 1
           /\ IF ~areAdjacent(indices[1], indices[2], ACTUAL_GRID_COLUMNS)
              THEN \* break
                   /\ genPc' = "returned"
                   /\ UNCHANGED <<items, attempt, swapIndex, reshuffles>>
              ELSE IF valid # {}
              THEN \* swap the second macguffin away, break
                   /\ \E target \in valid :
                         /\ swapIndex' = target
                         /\ items' = SwapCells(items, indices[2], target)
                   /\ genPc' = "returned"
                   /\ UNCHANGED <<attempt, reshuffles>>
              ELSE \* retry with a new shuffle, unless this was the last attempt
                   /\ IF MayReshuffle(attempt)
                      THEN /\ items' \in shuffle(chosen)
                           /\ reshuffles' = reshuffles + 1
                      ELSE UNCHANGED <<items, reshuffles>>
                   /\ attempt' = attempt + 1
                   /\ genPc' = IF LoopContinues(attempt + 1) THEN "loop" ELSE "returned"
                   /\ UNCHANGED swapIndex
    /\ UNCHANGED <<ACTUAL_GRID_COLUMNS, ACTUAL_GRID_ROWS, genMode, sourceSprites, chosen, macguffin>>
    /\ GenFrame

\* generateLevelForTheModeCalledDiscoverTheDuplicate, up to the adjacency test.
\* There is no guard on totalCells: with one cell chosen is [] and the macguffin
\* chosen[0] is undefined.
DiscoverBegin ==
    /\ genPc = "call"
    /\ genMode = "discover-the-duplicate"
    /\ \E subset \in SUBSET Range(ALL_SPRITES) :
          /\ Cardinality(subset) = NumUniqueSprites(TotalCells, ALL_SPRITES)
          /\ \E mac \in (IF subset = {} THEN {Undefined} ELSE subset) :
                /\ macguffin' = mac
                /\ chosen' = ChosenFor(ALL_SPRITES, subset, mac)
                /\ items' \in shuffle(ChosenFor(ALL_SPRITES, subset, mac))
    /\ genPc' = "loop"
    /\ UNCHANGED <<ACTUAL_GRID_COLUMNS, ACTUAL_GRID_ROWS, genMode, sourceSprites, attempt, swapIndex,
                   adjacencyChecks, reshuffles>>
    /\ GenFrame

\* The single adjacency test and swap, then return { items, macguffin }.  With
\* fewer than two macguffin cells macguffinIndices[1] is undefined and
\* areAdjacent, computing on NaN, is false.
DiscoverSeparate ==
    /\ genPc = "loop"
    /\ genMode = "discover-the-duplicate"
    /\ LET indices == CollectMacguffinIndices(items, macguffin)
       IN  /\ adjacencyChecks' = adjacencyChecks + 1
           /\ IF Len(indices) >= 2
                 /\ areAdjacent(indices[1], indices[2], ACTUAL_GRID_COLUMNS)
                 /\ ValidSwapPositions(items, indices, ACTUAL_GRID_COLUMNS) # {}
              THEN \E target \in ValidSwapPositions(items, indices, ACTUAL_GRID_COLUMNS) :
                      /\ swapIndex' = target
                      /\ items' = SwapCells(items, indices[2], target)
              ELSE UNCHANGED <<items, swapIndex>>
    /\ genPc' = "returned"
    /\ UNCHANGED <<ACTUAL_GRID_COLUMNS, ACTUAL_GRID_ROWS, genMode, sourceSprites, chosen, macguffin,
                   attempt, reshuffles>>
    /\ GenFrame

\* generateLevelForTheModeCalledPerfectPearing.  With a single cell the
\* do { idx2 } while (idx2 === idx1) loop never ends.
PerfectPearingGenerate ==
    /\ genPc = "call"
    /\ genMode = "perfect-pearing"
    /\ IF TotalCells < 2
       THEN /\ genPc' = "diverged"
            /\ UNCHANGED items
       ELSE /\ \E fill \in fillWithRandom(TotalCells, PEARING_FILLER_SPRITES) :
               \E idx1 \in 0..(TotalCells - 1), idx2 \in 0..(TotalCells - 1) :
               \E pear1 \in PEAR_SPRITES, pear2 \in PEAR_SPRITES :
                  /\ idx2 # idx1
                  /\ items' = [fill EXCEPT ![idx1 + 1] = pear1, ![idx2 + 1] = pear2]
            /\ genPc' = "returned"
    /\ UNCHANGED <<ACTUAL_GRID_COLUMNS, ACTUAL_GRID_ROWS, genMode, sourceSprites, chosen, macguffin,
                   attempt, swapIndex, adjacencyChecks, reshuffles>>
    /\ GenFrame

\* generateTeacupLevel: totalCells - 2 fillers, the teacup, the teapot, shuffled.
TeacupGenerate ==
    /\ genPc = "call"
    /\ genMode = "subtle-tea-teacup"
    /\ IF TotalCells < 2
       THEN /\ genPc' = "threw"
            /\ UNCHANGED <<items, macguffin>>
       ELSE /\ \E fill \in fillWithRandom(TotalCells - 2, TEACUP_FILLERS) :
                  items' \in shuffle(fill \o <<TEACUP_MACGUFFIN, TEAPOT_MACGUFFIN>>)
            /\ macguffin' = TEACUP_MACGUFFIN
            /\ genPc' = "returned"
    /\ UNCHANGED <<ACTUAL_GRID_COLUMNS, ACTUAL_GRID_ROWS, genMode, sourceSprites, chosen,
                   attempt, swapIndex, adjacencyChecks, reshuffles>>
    /\ GenFrame

\* generateLevelForTheModeCalledPeachParty: fill, ensureTargetPresent,
\* addExtraTargetsByChance.
PeachPartyGenerate ==
    /\ genPc = "call"
    /\ genMode = "peach-party"
    /\ \E fill \in fillWithRandom(TotalCells, PEACH_FILLER_SPRITES) :
       \E ensured \in ensureTargetPresent(fill, PEACH_TARGET) :
          items' \in addExtraTargetsByChance(ensured, PEACH_TARGET, DefaultExtraRuns)
    /\ genPc' = "returned"
    /\ UNCHANGED <<ACTUAL_GRID_COLUMNS, ACTUAL_GRID_ROWS, genMode, sourceSprites, chosen, macguffin,
                   attempt, swapIndex, adjacencyChecks, reshuffles>>
    /\ GenFrame

\* generateLevelForTheModeCalledGoBananas: every cell drawn from ALL_SPRITES, a
\* banana forced when none was drawn, addExtraTargetsByChance.
GoBananasGenerate ==
    /\ genPc = "call"
    /\ genMode = "go-bananas"
    /\ \E fill \in fillWithRandom(TotalCells, Range(ALL_SPRITES)) :
       \E ensured \in ensureTargetPresent(fill, BANANA_TARGET) :
          items' \in addExtraTargetsByChance(ensured, BANANA_TARGET, DefaultExtraRuns)
    /\ genPc' = "returned"
    /\ UNCHANGED <<ACTUAL_GRID_COLUMNS, ACTUAL_GRID_ROWS, genMode, sourceSprites, chosen, macguffin,
                   attempt, swapIndex, adjacencyChecks, reshuffles>>
    /\ GenFrame

\* generateLevelForTheModeCalledAppleOfMyEye: non-apples everywhere, then one
\* apple (red or green) on a random cell; the apple is returned with the items.
AppleOfMyEyeGenerate ==
    /\ genPc = "call"
    /\ genMode = "apple-of-my-eye"
    /\ \E apple \in APPLE_SPRITES :
       \E fill \in fillWithRandom(TotalCells, NON_APPLE_SPRITES) :
       \E appleIndex \in 0..(TotalCells - 1) :
          /\ items' = [fill EXCEPT ![appleIndex + 1] = apple]
          /\ macguffin' = apple
    /\ genPc' = "returned"
    /\ UNCHANGED <<ACTUAL_GRID_COLUMNS, ACTUAL_GRID_ROWS, genMode, sourceSprites, chosen,
                   attempt, swapIndex, adjacencyChecks, reshuffles>>
    /\ GenFrame

\* generateLeavesLevel: fillers, then leaves-falling on a random cell.
LeavesGenerate ==
    /\ genPc = "call"
    /\ genMode = "subtle-tea-leaves"
    /\ \E fill \in fillWithRandom(TotalCells, LEAVES_FILLERS) :
       \E leavesIndex \in 0..(TotalCells - 1) :
          items' = [fill EXCEPT ![leavesIndex + 1] = LEAVES_MACGUFFIN]
    /\ macguffin' = LEAVES_MACGUFFIN
    /\ genPc' = "returned"
    /\ UNCHANGED <<ACTUAL_GRID_COLUMNS, ACTUAL_GRID_ROWS, genMode, sourceSprites, chosen,
                   attempt, swapIndex, adjacencyChecks, reshuffles>>
    /\ GenFrame

\* generateTeapotLevel: fillers, then the teapot on a random cell.
TeapotGenerate ==
    /\ genPc = "call"
    /\ genMode = "subtle-tea-teapot"
    /\ \E fill \in fillWithRandom(TotalCells, TEAPOT_FILLERS) :
       \E teapotIndex \in 0..(TotalCells - 1) :
          items' = [fill EXCEPT ![teapotIndex + 1] = TEAPOT_MACGUFFIN]
    /\ macguffin' = TEAPOT_MACGUFFIN
    /\ genPc' = "returned"
    /\ UNCHANGED <<ACTUAL_GRID_COLUMNS, ACTUAL_GRID_ROWS, genMode, sourceSprites, chosen,
                   attempt, swapIndex, adjacencyChecks, reshuffles>>
    /\ GenFrame

GenNext ==
    \/ PeachPartyGenerate
    \/ GoBananasGenerate
    \/ AppleOfMyEyeGenerate
    \/ LeavesGenerate
    \/ TeapotGenerate
    \/ PickAPairBegin
    \/ PickAPairAttempt
    \/ DiscoverBegin
    \/ DiscoverSeparate
    \/ PerfectPearingGenerate
    \/ TeacupGenerate

(***************************************************************************)
(* A built click-to-remove level: buildGrid's click listener, the grid's   *)
(* touch and mouse handlers, checkWinClickToRemove with an array target    *)
(* (as Perfect Pearing passes it), the delayed onWin of                    *)
(* wrapOnWinWithJingleAndDelay, winLevel and startLevel.                   *)
(***************************************************************************)
Cells == 1..RoundCells
NoCell == 0

\* Where a pointer event lands: on a cell, or (NoCell) on no cell of the grid.
Positions == Cells \cup {NoCell}

\* checkWinClickToRemove's targets (PEAR_SPRITES) and the level's other sprite.
RoundTargets == PEAR_SPRITES
RoundSprites == RoundTargets \cup {PearingFillerNames[1]}

\* The cells of the level whose sprite is a target.
TargetCells == {c \in Cells : gridSprites[c] \in RoundTargets}

\* Mutation of Remaining: the :not(.removed) filter is missing.
RemainingCountsRemoved(removedCells) == TargetCells

\* gridEl.querySelectorAll('.cell:not(.removed)').filter(c => targets.includes(c.dataset.sprite))
Remaining(removedCells) == TargetCells \ removedCells

\* Mutation of checkWinClickToRemove: the targets.includes test is missing.
checkWinClickToRemoveAnySprite(cell) ==
    IF Remaining(removed \cup {cell}) = {} THEN "true" ELSE "undefined"

\* checkWinClickToRemove(gridEl, cell, target): "false", "undefined" or "true".
checkWinClickToRemove(cell) ==
    IF gridSprites[cell] \notin RoundTargets THEN "false"
    ELSE IF Remaining(removed \cup {cell}) = {} THEN "true"
    ELSE "undefined"

\* getCellUnderTouch: the cell under the touch unless it fades out or is removed.
getCellUnderTouch(position) ==
    IF position # NoCell /\ position \notin fadeOut /\ position \notin removed
    THEN position
    ELSE NoCell

\* Mutation of shouldIgnoreInput: input is never ignored.
shouldIgnoreInputNever == FALSE

\* shouldIgnoreInput: () => isTransitioning
shouldIgnoreInput == isTransitioning

RoundIdle ==
    /\ gridSprites = <<>>
    /\ removed = {}
    /\ fadeOut = {}
    /\ isTransitioning = FALSE
    /\ touchStartCell = NoCell
    /\ pressedCell = NoCell
    /\ pendingOnWin = 0
    /\ startLevelTimeoutId = FALSE
    /\ lastResult = "none"
    /\ lastCell = NoCell
    /\ winFadeStage = "none"
    /\ lastWasRemoved = FALSE
    /\ reactivated = FALSE
    /\ continues = 0
    /\ completes = 0
    /\ onWinCalls = 0
    /\ winLevelCalls = 0
    /\ activations = 0
    /\ roundPc = "idle"

\* startLevel has run and the mode's start has built the grid: the click-to-remove
\* generators place at least one target, no cell is removed, input is not ignored.
RoundInit ==
    /\ gridSprites \in [Cells -> RoundSprites]
    /\ \E c \in Cells : gridSprites[c] \in RoundTargets
    /\ removed = {}
    /\ fadeOut = {}
    /\ isTransitioning = FALSE
    /\ touchStartCell = NoCell
    /\ pressedCell = NoCell
    /\ pendingOnWin = 0
    /\ startLevelTimeoutId = FALSE
    /\ lastResult = "none"
    /\ lastCell = NoCell
    /\ winFadeStage = "none"
    /\ lastWasRemoved = FALSE
    /\ reactivated = FALSE
    /\ continues = 0
    /\ completes = 0
    /\ onWinCalls = 0
    /\ winLevelCalls = 0
    /\ activations = 0
    /\ roundPc = "level"

\* const result = checkWin(cell); if (result === false) ... else if (result) onWin(...)
\* with checkWin = checkWinClickToRemove and onWin the wrapped, delayed onWin.
Activate(cell) ==
    LET result == checkWinClickToRemove(cell) IN
    /\ activations < MaxActivations
    /\ activations' = activations + 1
    /\ lastResult' = result
    /\ lastCell' = cell
    /\ lastWasRemoved' = (cell \in removed)
    /\ reactivated' = (reactivated \/ cell \in removed)
    /\ removed' = IF result = "false" THEN removed ELSE removed \cup {cell}
    /\ continues' = IF result = "undefined" THEN continues + 1 ELSE continues
    /\ completes' = IF result = "true" THEN completes + 1 ELSE completes
    /\ onWinCalls' = IF result = "true" THEN onWinCalls + 1 ELSE onWinCalls
    /\ pendingOnWin' = IF result = "true" THEN pendingOnWin + 1 ELSE pendingOnWin

\* cell.addEventListener('click', ...)
Click ==
    /\ roundPc = "level"
    /\ ~shouldIgnoreInput
    /\ \E cell \in Cells : Activate(cell)
    /\ UNCHANGED <<gridSprites, winFadeStage, fadeOut, isTransitioning, touchStartCell, pressedCell,
                   startLevelTimeoutId, winLevelCalls, roundPc>>
    /\ RoundFrame

\* gridEl.addEventListener('touchstart', ...)
TouchStart ==
    /\ roundPc = "level"
    /\ ~shouldIgnoreInput
    /\ \E position \in Positions :
          touchStartCell' = IF getCellUnderTouch(position) # NoCell
                            THEN getCellUnderTouch(position)
                            ELSE touchStartCell
    /\ UNCHANGED <<gridSprites, winFadeStage, removed, fadeOut, isTransitioning, pressedCell,
                   pendingOnWin, startLevelTimeoutId, lastResult, lastCell, lastWasRemoved,
                   reactivated, continues, completes, onWinCalls, winLevelCalls,
                   activations, roundPc>>
    /\ RoundFrame

\* gridEl.addEventListener('touchmove', ...)
TouchMove ==
    /\ roundPc = "level"
    /\ ~shouldIgnoreInput
    /\ \E position \in Positions :
          touchStartCell' = IF getCellUnderTouch(position) # NoCell
                            THEN getCellUnderTouch(position)
                            ELSE touchStartCell
    /\ UNCHANGED <<gridSprites, winFadeStage, removed, fadeOut, isTransitioning, pressedCell,
                   pendingOnWin, startLevelTimeoutId, lastResult, lastCell, lastWasRemoved,
                   reactivated, continues, completes, onWinCalls, winLevelCalls,
                   activations, roundPc>>
    /\ RoundFrame

\* gridEl.addEventListener('touchend', ...)
TouchEnd ==
    /\ roundPc = "level"
    /\ ~shouldIgnoreInput
    /\ \E position \in Positions :
          LET finalCell == IF getCellUnderTouch(position) # NoCell
                           THEN getCellUnderTouch(position)
                           ELSE touchStartCell
          IN  IF finalCell # NoCell
              THEN Activate(finalCell)
              ELSE UNCHANGED <<removed, pendingOnWin, lastResult, lastCell, lastWasRemoved,
                               reactivated, continues, completes, onWinCalls,
                               activations>>
    /\ touchStartCell' = NoCell
    /\ UNCHANGED <<gridSprites, winFadeStage, fadeOut, isTransitioning, pressedCell,
                   startLevelTimeoutId, winLevelCalls, roundPc>>
    /\ RoundFrame

\* gridEl.addEventListener('touchcancel', ...)
TouchCancel ==
    /\ roundPc = "level"
    /\ touchStartCell # NoCell
    /\ touchStartCell' = NoCell
    /\ UNCHANGED <<gridSprites, winFadeStage, removed, fadeOut, isTransitioning, pressedCell,
                   pendingOnWin, startLevelTimeoutId, lastResult, lastCell, lastWasRemoved,
                   reactivated, continues, completes, onWinCalls, winLevelCalls,
                   activations, roundPc>>
    /\ RoundFrame

\* gridEl.addEventListener('mousedown', ...)
MouseDown ==
    /\ roundPc = "level"
    /\ ~shouldIgnoreInput
    /\ \E cell \in Cells :
          /\ cell \notin fadeOut
          /\ cell \notin removed
          /\ pressedCell' = cell
    /\ UNCHANGED <<gridSprites, winFadeStage, removed, fadeOut, isTransitioning, touchStartCell,
                   pendingOnWin, startLevelTimeoutId, lastResult, lastCell, lastWasRemoved,
                   reactivated, continues, completes, onWinCalls, winLevelCalls,
                   activations, roundPc>>
    /\ RoundFrame

\* document.addEventListener('mouseup', ...)
MouseUp ==
    /\ roundPc = "level"
    /\ pressedCell # NoCell
    /\ pressedCell' = NoCell
    /\ UNCHANGED <<gridSprites, winFadeStage, removed, fadeOut, isTransitioning, touchStartCell,
                   pendingOnWin, startLevelTimeoutId, lastResult, lastCell, lastWasRemoved,
                   reactivated, continues, completes, onWinCalls, winLevelCalls,
                   activations, roundPc>>
    /\ RoundFrame

\* The timer of the wrapped onWin fires: opts.onWin(result) is winLevel({}),
\* which sets isTransitioning, fades every cell out and schedules startLevel.
winLevel ==
    /\ roundPc = "level"
    /\ pendingOnWin > 0
    /\ pendingOnWin' = pendingOnWin - 1
    /\ isTransitioning' = TRUE
    /\ fadeOut' = Cells
    /\ startLevelTimeoutId' = TRUE
    /\ winLevelCalls' = winLevelCalls + 1
    /\ UNCHANGED <<gridSprites, winFadeStage, removed, touchStartCell, pressedCell, lastResult, lastCell,
                   lastWasRemoved, reactivated, continues, completes, onWinCalls,
                   activations, roundPc>>
    /\ RoundFrame

\* The startLevel timer fires: the level on screen is replaced by the next one.
startLevel ==
    /\ roundPc = "level"
    /\ startLevelTimeoutId
    /\ isTransitioning' = FALSE
    /\ startLevelTimeoutId' = FALSE
    /\ roundPc' = "next"
    /\ UNCHANGED <<gridSprites, winFadeStage, removed, fadeOut, touchStartCell, pressedCell,
                   pendingOnWin, lastResult, lastCell, lastWasRemoved, reactivated, continues,
                   completes, onWinCalls, winLevelCalls, activations>>
    /\ RoundFrame

RoundNext ==
    \/ Click
    \/ TouchStart
    \/ TouchMove
    \/ TouchEnd
    \/ TouchCancel
    \/ MouseDown
    \/ MouseUp
    \/ winLevel
    \/ startLevel

(***************************************************************************)
(* Specifications                                                          *)
(***************************************************************************)
InitDim == DimInit /\ GenIdle /\ RoundIdle /\ SeedIdle /\ AppIdle /\ UtilIdle

SpecDim == InitDim /\ [][DimNext]_vars

InitGen == GenInit /\ DimIdle /\ RoundIdle /\ SeedIdle /\ AppIdle /\ UtilIdle

SpecGen == InitGen /\ [][GenNext]_vars

InitRound == RoundInit /\ DimIdle /\ GenIdle /\ SeedIdle /\ AppIdle /\ UtilIdle

SpecRound == InitRound /\ [][RoundNext]_vars

\* startModeLevel(gridEl, opts, maxCells, levelData, checkWin): buildGrid creates one
\* cell per item of the generated layout.  (computeGridDimensions(maxCells) leaves
\* the grid as it was resolved for the mode.)
startModeLevel ==
    /\ roundPc = "idle"
    /\ genPc = "returned"
    /\ Len(items) = RoundCells
    /\ gridSprites' = items
    /\ roundPc' = "level"
    /\ UNCHANGED <<winFadeStage, removed, fadeOut, isTransitioning, touchStartCell,
                   pressedCell, pendingOnWin, startLevelTimeoutId, lastResult, lastCell,
                   lastWasRemoved, reactivated, continues, completes, onWinCalls,
                   winLevelCalls, activations>>
    /\ RoundFrame

\* Perfect Pearing from its generator to the end of the level it builds, on a grid
\* of RoundCells columns by 1 row.
PearingGenInit ==
    /\ genMode = "perfect-pearing"
    /\ ACTUAL_GRID_COLUMNS = RoundCells
    /\ ACTUAL_GRID_ROWS = 1
    /\ sourceSprites = {}
    /\ chosen = <<>>
    /\ macguffin = Undefined
    /\ items = <<>>
    /\ attempt = 0
    /\ swapIndex = NoIndex
    /\ adjacencyChecks = 0
    /\ reshuffles = 0
    /\ genPc = "call"

InitPearing == PearingGenInit /\ DimIdle /\ RoundIdle /\ SeedIdle /\ AppIdle /\ UtilIdle

PearingNext ==
    \/ PerfectPearingGenerate
    \/ startModeLevel
    \/ Click
    \/ TouchStart
    \/ TouchMove
    \/ TouchEnd
    \/ TouchCancel
    \/ MouseDown
    \/ MouseUp
    \/ winLevel
    \/ startLevel

SpecPearing == InitPearing /\ [][PearingNext]_vars

(***************************************************************************)
(* A built single-instance level (Pick A Pair, Apple of My Eye, Subtle     *)
(* Tea): the mode's checkWin returns false or a win object, and onWin is   *)
(* winLevel itself, which fades the macguffin cells in a second stage.     *)
(***************************************************************************)
SingleInstanceModes == {"pick-a-pair", "apple-of-my-eye", "subtle-tea-leaves",
                        "subtle-tea-teapot", "subtle-tea-teacup"}

\* The cells of the level that hold the macguffin.
MacguffinCells == {c \in Cells : gridSprites[c] = macguffin}

\* Mutation of checkWinMacguffin: the click-to-remove convention, undefined
\* while another macguffin cell is left.
checkWinMacguffinUntilLast(cell) ==
    IF gridSprites[cell] # macguffin THEN "false"
    ELSE IF MacguffinCells \ {cell} # {} THEN "undefined"
    ELSE "object"

\* const checkWin = (cell) => { if (cell.dataset.sprite !== macguffin) return false;
\* ...; return { macguffin, postClickedSpriteFadingPreTransitioningFadeMs } }
checkWinMacguffin(cell) ==
    IF gridSprites[cell] # macguffin THEN "false" ELSE "object"

\* The handler's call of checkWin and, on a truthy result, of onWin = winLevel(winData)
\* with winData.macguffin set: isTransitioning, the other cells fade out, the first
\* timer of the staged fade is set.
ActivateSingle(cell) ==
    LET result == checkWinMacguffin(cell) IN
    /\ activations < MaxActivations
    /\ activations' = activations + 1
    /\ lastResult' = result
    /\ lastCell' = cell
    /\ continues' = IF result = "undefined" THEN continues + 1 ELSE continues
    /\ IF result = "object"
       THEN /\ completes' = completes + 1
            /\ onWinCalls' = onWinCalls + 1
            /\ winLevelCalls' = winLevelCalls + 1
            /\ isTransitioning' = TRUE
            /\ fadeOut' = fadeOut \cup (Cells \ MacguffinCells)
            /\ winFadeStage' = "macguffin"
       ELSE UNCHANGED <<completes, onWinCalls, winLevelCalls, isTransitioning, fadeOut,
                        winFadeStage>>

\* cell.addEventListener('click', ...) of a single-instance level.
SingleClick ==
    /\ roundPc = "level"
    /\ genMode \in SingleInstanceModes
    /\ ~shouldIgnoreInput
    /\ \E cell \in Cells : ActivateSingle(cell)
    /\ UNCHANGED <<gridSprites, removed, touchStartCell, pressedCell, pendingOnWin,
                   startLevelTimeoutId, lastWasRemoved, reactivated, roundPc>>
    /\ RoundFrame

\* gridEl.addEventListener('touchend', ...) of a single-instance level.
SingleTouchEnd ==
    /\ roundPc = "level"
    /\ genMode \in SingleInstanceModes
    /\ ~shouldIgnoreInput
    /\ \E position \in Positions :
          LET finalCell == IF getCellUnderTouch(position) # NoCell
                           THEN getCellUnderTouch(position)
                           ELSE touchStartCell
          IN  IF finalCell # NoCell
              THEN ActivateSingle(finalCell)
              ELSE UNCHANGED <<activations, lastResult, lastCell, continues, completes,
                               onWinCalls, winLevelCalls, isTransitioning, fadeOut,
                               winFadeStage>>
    /\ touchStartCell' = NoCell
    /\ UNCHANGED <<gridSprites, removed, pressedCell, pendingOnWin, startLevelTimeoutId,
                   lastWasRemoved, reactivated, roundPc>>
    /\ RoundFrame

\* winLevel's first timer (MACGUFFIN_FADE_DELAY_MS): the macguffin cells fade out
\* and the second timer is set.
MacguffinFadeTimer ==
    /\ roundPc = "level"
    /\ winFadeStage = "macguffin"
    /\ fadeOut' = fadeOut \cup MacguffinCells
    /\ winFadeStage' = "drain"
    /\ UNCHANGED <<gridSprites, removed, isTransitioning, touchStartCell, pressedCell,
                   pendingOnWin, startLevelTimeoutId, lastResult, lastCell,
                   lastWasRemoved, reactivated, continues, completes, onWinCalls,
                   winLevelCalls, activations, roundPc>>
    /\ RoundFrame

\* winLevel's second timer: scheduleDrainAndLevel sets the startLevel timer.
DrainTimer ==
    /\ roundPc = "level"
    /\ winFadeStage = "drain"
    /\ startLevelTimeoutId' = TRUE
    /\ winFadeStage' = "none"
    /\ UNCHANGED <<gridSprites, removed, fadeOut, isTransitioning, touchStartCell,
                   pressedCell, pendingOnWin, lastResult, lastCell, lastWasRemoved,
                   reactivated, continues, completes, onWinCalls, winLevelCalls,
                   activations, roundPc>>
    /\ RoundFrame

\* A single-instance mode from its generator to the end of the level it builds,
\* on a grid of RoundCells columns by 1 row.
SingleGenInit ==
    /\ genMode \in SingleInstanceModes
    /\ ACTUAL_GRID_COLUMNS = RoundCells
    /\ ACTUAL_GRID_ROWS = 1
    /\ sourceSprites = {}
    /\ chosen = <<>>
    /\ macguffin = Undefined
    /\ items = <<>>
    /\ attempt = 0
    /\ swapIndex = NoIndex
    /\ adjacencyChecks = 0
    /\ reshuffles = 0
    /\ genPc = "call"

InitSingle == SingleGenInit /\ DimIdle /\ RoundIdle /\ SeedIdle /\ AppIdle /\ UtilIdle

SingleNext ==
    \/ PickAPairBegin
    \/ PickAPairAttempt
    \/ AppleOfMyEyeGenerate
    \/ LeavesGenerate
    \/ TeapotGenerate
    \/ TeacupGenerate
    \/ startModeLevel
    \/ SingleClick
    \/ SingleTouchEnd
    \/ TouchStart
    \/ TouchMove
    \/ TouchCancel
    \/ MouseDown
    \/ MouseUp
    \/ MacguffinFadeTimer
    \/ DrainTimer
    \/ startLevel

SpecSingle == InitSingle /\ [][SingleNext]_vars

(***************************************************************************)
(* level.js: the 3 x 7 grid, the catalog of 20 sprites and generateLevel.  *)
(***************************************************************************)
LEVEL_ALL_SPRITES ==
    << "apple-green", "apple-red", "avocado", "banana", "carrot",
       "cherries", "coconut", "cucumber", "grapes", "greens",
       "kiwi", "lemon", "mango", "melon", "peach",
       "pear", "pineapple", "strawberry", "tangerine",
       "watermelon" >>

LEVEL_GRID_COLUMNS == 3
LEVEL_GRID_ROWS == 7
LEVEL_MAX_CELLS == Len(LEVEL_ALL_SPRITES) + 1

\* shuffle(chosen) for chosen = the sprites of subset once and mac twice, up to the
\* order of the sprites that appear once: mac on the cells p < q (0-based), the
\* other sprites in catalog order on the cells left.  Neither the separation nor
\* what is returned about counts and positions depends on that order.
PairLayout(catalog, subset, mac, p, q) ==
    LET keep(sprite) == sprite \in subset /\ sprite # mac
        others == SelectSeq(catalog, keep)
    IN  [i \in 1..(Len(others) + 2) |->
            IF i - 1 = p \/ i - 1 = q
            THEN mac
            ELSE others[i - (IF i - 1 > p THEN 1 ELSE 0) - (IF i - 1 > q THEN 1 ELSE 0)]]

\* level.js as loaded: the grid reduced to MAX_CELLS, generateLevel about to run.
LevelGenInit ==
    /\ genMode = "level"
    /\ LET shape == reduceDimensions(LEVEL_GRID_COLUMNS, LEVEL_GRID_ROWS, LEVEL_MAX_CELLS)
       IN  /\ ACTUAL_GRID_COLUMNS = shape[1]
           /\ ACTUAL_GRID_ROWS = shape[2]
    /\ sourceSprites = {}
    /\ chosen = <<>>
    /\ macguffin = Undefined
    /\ items = <<>>
    /\ attempt = 0
    /\ swapIndex = NoIndex
    /\ adjacencyChecks = 0
    /\ reshuffles = 0
    /\ genPc = "call"

\* generateLevel up to let items = shuffle(chosen): every sprite once on a full
\* grid, a random subset on a smaller one, and one of them a second time.
generateLevelBegin ==
    /\ genPc = "call"
    /\ genMode = "level"
    /\ \E subset \in (IF TotalCells >= LEVEL_MAX_CELLS
                      THEN {Range(LEVEL_ALL_SPRITES)}
                      ELSE {sub \in SUBSET Range(LEVEL_ALL_SPRITES) :
                                Cardinality(sub) = TotalCells - 1}) :
       \E mac \in subset :
       \E p \in 0..Cardinality(subset), q \in 0..Cardinality(subset) :
          /\ p < q
          /\ macguffin' = mac
          /\ chosen' = ChosenFor(LEVEL_ALL_SPRITES, subset, mac)
          /\ items' = PairLayout(LEVEL_ALL_SPRITES, subset, mac, p, q)
    /\ genPc' = "loop"
    /\ UNCHANGED <<ACTUAL_GRID_COLUMNS, ACTUAL_GRID_ROWS, genMode, sourceSprites, attempt, swapIndex,
                   adjacencyChecks, reshuffles>>
    /\ GenFrame

\* generateLevel from the search for the macguffin's two positions: the single
\* adjacency test and swap, then return { items, macguffin }.
generateLevelSeparate ==
    /\ genPc = "loop"
    /\ genMode = "level"
    /\ LET indices == CollectMacguffinIndices(items, macguffin)
       IN  /\ adjacencyChecks' = adjacencyChecks + 1
           /\ IF /\ areAdjacent(indices[1], indices[2], ACTUAL_GRID_COLUMNS)
                 /\ ValidSwapPositions(items, indices, ACTUAL_GRID_COLUMNS) # {}
              THEN \E target \in ValidSwapPositions(items, indices, ACTUAL_GRID_COLUMNS) :
                      /\ swapIndex' = target
                      /\ items' = SwapCells(items, indices[2], target)
              ELSE UNCHANGED <<items, swapIndex>>
    /\ genPc' = "returned"
    /\ UNCHANGED <<ACTUAL_GRID_COLUMNS, ACTUAL_GRID_ROWS, genMode, sourceSprites, chosen, macguffin,
                   attempt, reshuffles>>
    /\ GenFrame

InitLevel == LevelGenInit /\ DimIdle /\ RoundIdle /\ SeedIdle /\ AppIdle /\ UtilIdle

LevelNext ==
    \/ generateLevelBegin
    \/ generateLevelSeparate

SpecLevel == InitLevel /\ [][LevelNext]_vars

(***************************************************************************)
(* modes/go-bananas.js (and Peach Party of the same generation): a level   *)
(* whose checkWin is the mode's own closure, not checkWinClickToRemove.    *)
(***************************************************************************)
\* const checkWin = (cell) => { if (cell.dataset.sprite !== 'banana') return false;
\* cell.classList.add('removed'); ...; return remaining.length === 0; }
checkWinGoBananas(cell) ==
    IF gridSprites[cell] \notin RoundTargets THEN "false"
    ELSE IF Remaining(removed \cup {cell}) = {} THEN "true"
    ELSE "false"

\* The handler's call of checkWin and, on a truthy result, of the wrapped onWin.
\* The closure adds 'removed' to every target cell it is given, whatever it returns.
ActivateGoBananas(cell) ==
    LET result == checkWinGoBananas(cell) IN
    /\ activations < MaxActivations
    /\ activations' = activations + 1
    /\ lastResult' = result
    /\ lastCell' = cell
    /\ lastWasRemoved' = (cell \in removed)
    /\ reactivated' = (reactivated \/ cell \in removed)
    /\ removed' = IF gridSprites[cell] \in RoundTargets THEN removed \cup {cell} ELSE removed
    /\ continues' = continues
    /\ completes' = IF result = "true" THEN completes + 1 ELSE completes
    /\ onWinCalls' = IF result = "true" THEN onWinCalls + 1 ELSE onWinCalls
    /\ pendingOnWin' = IF result = "true" THEN pendingOnWin + 1 ELSE pendingOnWin

\* cell.addEventListener('click', ...) of a Go Bananas level
GoBananasClick ==
    /\ roundPc = "level"
    /\ ~shouldIgnoreInput
    /\ \E cell \in Cells : ActivateGoBananas(cell)
    /\ UNCHANGED <<gridSprites, winFadeStage, fadeOut, isTransitioning, touchStartCell,
                   pressedCell, startLevelTimeoutId, winLevelCalls, roundPc>>
    /\ RoundFrame

\* gridEl.addEventListener('touchend', ...) of a Go Bananas level
GoBananasTouchEnd ==
    /\ roundPc = "level"
    /\ ~shouldIgnoreInput
    /\ \E position \in Positions :
          LET finalCell == IF getCellUnderTouch(position) # NoCell
                           THEN getCellUnderTouch(position)
                           ELSE touchStartCell
          IN  IF finalCell # NoCell
              THEN ActivateGoBananas(finalCell)
              ELSE UNCHANGED <<removed, pendingOnWin, lastResult, lastCell, lastWasRemoved,
                               reactivated, continues, completes, onWinCalls,
                               activations>>
    /\ touchStartCell' = NoCell
    /\ UNCHANGED <<gridSprites, winFadeStage, fadeOut, isTransitioning, pressedCell,
                   startLevelTimeoutId, winLevelCalls, roundPc>>
    /\ RoundFrame

GoBananasNext ==
    \/ GoBananasClick
    \/ TouchStart
    \/ TouchMove
    \/ GoBananasTouchEnd
    \/ TouchCancel
    \/ MouseDown
    \/ MouseUp
    \/ winLevel
    \/ startLevel

SpecGoBananas == InitRound /\ [][GoBananasNext]_vars

(***************************************************************************)
(* The fill generators on any filler catalog: a mode's FILLER_SPRITES cut  *)
(* down to a subset, the empty one included.  No generator inspects the    *)
(* catalog before drawing from it.                                         *)
(***************************************************************************)
CatalogModes == {"peach-party", "subtle-tea-teapot"}

\* The mode's own FILLER_SPRITES, of which sourceSprites is a subset.
FillersOf(mode) ==
    IF mode = "peach-party" THEN PEACH_FILLER_SPRITES ELSE TEAPOT_FILLERS

CatalogGenInit ==
    /\ genMode \in CatalogModes
    /\ \E columns \in 1..MaxGridColumns, rows \in 1..MaxGridRows :
          /\ columns * rows <= MaxFillCells
          /\ ACTUAL_GRID_COLUMNS = columns
          /\ ACTUAL_GRID_ROWS = rows
    /\ sourceSprites \in SUBSET FillersOf(genMode)
    /\ chosen = <<>>
    /\ macguffin = Undefined
    /\ items = <<>>
    /\ attempt = 0
    /\ swapIndex = NoIndex
    /\ adjacencyChecks = 0
    /\ reshuffles = 0
    /\ genPc = "call"

\* generateLevelForTheModeCalledPeachParty with FILLER_SPRITES = sourceSprites.
PeachPartyFromCatalog ==
    /\ genPc = "call"
    /\ genMode = "peach-party"
    /\ \E fill \in fillWithRandom(TotalCells, sourceSprites) :
       \E ensured \in ensureTargetPresent(fill, PEACH_TARGET) :
          items' \in addExtraTargetsByChance(ensured, PEACH_TARGET, DefaultExtraRuns)
    /\ genPc' = "returned"
    /\ UNCHANGED <<ACTUAL_GRID_COLUMNS, ACTUAL_GRID_ROWS, genMode, sourceSprites, chosen,
                   macguffin, attempt, swapIndex, adjacencyChecks, reshuffles>>
    /\ GenFrame

\* generateTeapotLevel with TEAPOT_FILLERS = sourceSprites.
TeapotFromCatalog ==
    /\ genPc = "call"
    /\ genMode = "subtle-tea-teapot"
    /\ \E fill \in fillWithRandom(TotalCells, sourceSprites) :
       \E teapotIndex \in 0..(TotalCells - 1) :
          items' = [fill EXCEPT ![teapotIndex + 1] = TEAPOT_MACGUFFIN]
    /\ macguffin' = TEAPOT_MACGUFFIN
    /\ genPc' = "returned"
    /\ UNCHANGED <<ACTUAL_GRID_COLUMNS, ACTUAL_GRID_ROWS, genMode, sourceSprites, chosen,
                   attempt, swapIndex, adjacencyChecks, reshuffles>>
    /\ GenFrame

InitCatalog == CatalogGenInit /\ DimIdle /\ RoundIdle /\ SeedIdle /\ AppIdle /\ UtilIdle

CatalogNext ==
    \/ PeachPartyFromCatalog
    \/ TeapotFromCatalog

SpecCatalog == InitCatalog /\ [][CatalogNext]_vars

(***************************************************************************)
(* Pick A Pair at the level of its Math.random() calls, called twice on    *)
(* the same stream of results.  The first call draws its results freely    *)
(* and records them; the second call, made after the first has returned    *)
(* and with whatever the first left behind, reads the recorded stream.     *)
(***************************************************************************)
RandomResults == 0..(RandomLevels - 1)

\* Math.floor(Math.random() * n) for the result r / RandomLevels.
floorRandomTimes(r, n) == (r * n) \div RandomLevels

\* shuffle(array) of utils.js on given results: for (i = a.length - 1; i > 0; i--)
\* { j = Math.floor(Math.random() * (i + 1)); [a[i], a[j]] = [a[j], a[i]] }
shuffleWith(array, results) ==
    LET RECURSIVE Loop(_, _, _)
        Loop(a, i, used) ==
            IF i <= 0 THEN a
            ELSE LET j == floorRandomTimes(results[used + 1], i + 1)
                 IN  Loop([a EXCEPT ![i + 1] = a[j + 1], ![j + 1] = a[i + 1]], i - 1, used + 1)
    IN  Loop(array, Len(array) - 1, 0)

\* How many results shuffle consumes on an array of a given length.
ShuffleDraws(length) == IF length > 1 THEN length - 1 ELSE 0

\* validSwapPositions as the array the loop builds: ascending positions.
RECURSIVE SortedSeq(_)
SortedSeq(S) ==
    IF S = {} THEN <<>>
    ELSE LET least == CHOOSE x \in S : \A y \in S : x <= y
         IN  <<least>> \o SortedSeq(S \ {least})

\* Mutation of NextResults: the second call reads another stream, every recorded
\* result r replaced by RandomLevels - 1 - r.
NextResultsOtherStream(count) ==
    IF runNumber = 1
    THEN IF Len(randomDraws) + count <= MaxDraws THEN [1..count -> RandomResults] ELSE {}
    ELSE IF drawCursor + count <= Len(randomDraws)
         THEN {[i \in 1..count |-> RandomLevels - 1 - randomDraws[drawCursor + i]]}
         ELSE {[i \in 1..count |-> 0]}

\* The next count results of Math.random(): free during the first call (while the
\* stream stays within MaxDraws), the recorded ones during the second.
NextResults(count) ==
    IF runNumber = 1
    THEN IF Len(randomDraws) + count <= MaxDraws THEN [1..count -> RandomResults] ELSE {}
    ELSE IF drawCursor + count <= Len(randomDraws)
         THEN {SubSeq(randomDraws, drawCursor + 1, drawCursor + count)}
         ELSE [1..count -> RandomResults]

\* The stream after a call consumed results.
Consume(results) ==
    /\ drawCursor' = drawCursor + Len(results)
    /\ randomDraws' = IF runNumber = 1 THEN randomDraws \o results ELSE randomDraws

SeededGenInit ==
    /\ genMode = "pick-a-pair"
    /\ \E columns \in 1..MaxGridColumns, rows \in 1..MaxGridRows :
          LET shape == reduceDimensions(columns, rows, MAX_CELLS(genMode, columns, rows))
          IN  /\ ACTUAL_GRID_COLUMNS = shape[1]
              /\ ACTUAL_GRID_ROWS = shape[2]
    /\ sourceSprites = {}
    /\ chosen = <<>>
    /\ macguffin = Undefined
    /\ items = <<>>
    /\ attempt = 0
    /\ swapIndex = NoIndex
    /\ adjacencyChecks = 0
    /\ reshuffles = 0
    /\ genPc = "call"

InitSeeded ==
    /\ SeededGenInit
    /\ DimIdle
    /\ RoundIdle
    /\ randomDraws = <<>>
    /\ drawCursor = 0
    /\ runNumber = 1
    /\ firstLayout = <<>>
    /\ AppIdle
    /\ UtilIdle

\* generateLevelForTheModeCalledPickAPair up to the for loop, on the stream.
SeededBegin ==
    /\ genPc = "call"
    /\ genMode = "pick-a-pair"
    /\ runNumber \in {1, 2}
    /\ IF TotalCells < 2
       THEN /\ genPc' = "threw"
            /\ UNCHANGED <<chosen, macguffin, items, randomDraws, drawCursor>>
       ELSE LET catalogLength == Len(SPRITES_FOR_PICK_A_PAIR)
                uniques == NumUniqueSprites(TotalCells, SPRITES_FOR_PICK_A_PAIR)
                first == ShuffleDraws(catalogLength)
                count == first + 1 + ShuffleDraws(uniques + 1)
            IN  /\ \E results \in NextResults(count) :
                      LET shuffledAll == shuffleWith(SPRITES_FOR_PICK_A_PAIR,
                                                     SubSeq(results, 1, first))
                          slice == SubSeq(shuffledAll, 1, uniques)
                          mac == slice[floorRandomTimes(results[first + 1], Len(slice)) + 1]
                          withDuplicate == Append(slice, mac)
                      IN  /\ macguffin' = mac
                          /\ chosen' = withDuplicate
                          /\ items' = shuffleWith(withDuplicate,
                                                  SubSeq(results, first + 2, count))
                          /\ Consume(results)
                /\ genPc' = "loop"
    /\ UNCHANGED <<ACTUAL_GRID_COLUMNS, ACTUAL_GRID_ROWS, genMode, sourceSprites, attempt,
                   swapIndex, adjacencyChecks, reshuffles, runNumber, firstLayout>>
    /\ SeedFrame

\* One iteration of the separation loop on the stream, with the loop's exit.
SeededAttempt ==
    /\ genPc = "loop"
    /\ genMode = "pick-a-pair"
    /\ LoopContinues(attempt)
    /\ LET indices == CollectMacguffinIndices(items, macguffin)
           valid == SortedSeq(ValidSwapPositions(items, indices, ACTUAL_GRID_COLUMNS))
       IN  /\ adjacencyChecks' = adjacencyChecks + 1
           /\ IF ~areAdjacent(indices[1], indices[2], ACTUAL_GRID_COLUMNS)
              THEN /\ genPc' = "returned"
                   /\ UNCHANGED <<items, attempt, swapIndex, reshuffles, randomDraws,
                                  drawCursor>>
              ELSE IF Len(valid) > 0
              THEN /\ \E results \in NextResults(1) :
                         LET target == valid[floorRandomTimes(results[1], Len(valid)) + 1]
                         IN  /\ swapIndex' = target
                             /\ items' = SwapCells(items, indices[2], target)
                             /\ Consume(results)
                   /\ genPc' = "returned"
                   /\ UNCHANGED <<attempt, reshuffles>>
              ELSE /\ IF MayReshuffle(attempt)
                      THEN \E results \in NextResults(ShuffleDraws(Len(chosen))) :
                              /\ items' = shuffleWith(chosen, results)
                              /\ reshuffles' = reshuffles + 1
                              /\ Consume(results)
                      ELSE UNCHANGED <<items, reshuffles, randomDraws, drawCursor>>
                   /\ attempt' = attempt + 1
                   /\ genPc' = IF LoopContinues(attempt + 1) THEN "loop" ELSE "returned"
                   /\ UNCHANGED swapIndex
    /\ UNCHANGED <<ACTUAL_GRID_COLUMNS, ACTUAL_GRID_ROWS, genMode, sourceSprites, chosen,
                   macguffin, runNumber, firstLayout>>
    /\ SeedFrame

\* The first call has returned: its result is kept and the generator is called
\* again; let and const give the second call fresh locals.
SeededCallAgain ==
    /\ genPc = "returned"
    /\ runNumber = 1
    /\ firstLayout' = <<items, macguffin>>
    /\ runNumber' = 2
    /\ drawCursor' = 0
    /\ chosen' = <<>>
    /\ macguffin' = Undefined
    /\ items' = <<>>
    /\ attempt' = 0
    /\ swapIndex' = NoIndex
    /\ adjacencyChecks' = 0
    /\ reshuffles' = 0
    /\ genPc' = "call"
    /\ UNCHANGED <<ACTUAL_GRID_COLUMNS, ACTUAL_GRID_ROWS, genMode, sourceSprites, randomDraws>>
    /\ SeedFrame

SeededNext ==
    \/ SeededBegin
    \/ SeededAttempt
    \/ SeededCallAgain

SpecSeeded == InitSeeded /\ [][SeededNext]_vars

(***************************************************************************)
(* Level starts across mode switches.  app.js startLevel dispatches to the *)
(* current mode's start(), which calls its generator first and then        *)
(* startModeLevel, where computeGridDimensions(MAX_CELLS) resolves the     *)
(* grid and buildGrid receives the generated items.  The generator reads   *)
(* window.ACTUAL_GRID_COLUMNS / ROWS as the previous level start (or       *)
(* initDefaultGridDimensions) left them.                                   *)
(***************************************************************************)
SwitchModes == {"pick-a-pair", "discover-the-duplicate", "peach-party", "perfect-pearing"}

\* computeGridDimensions(maxCells) for a mode on the desired grid.
computeGridDimensions(mode) ==
    reduceDimensions(SwitchGridColumns, SwitchGridRows,
                     MAX_CELLS(mode, SwitchGridColumns, SwitchGridRows))

\* Startup: initDefaultGridDimensions() is computeGridDimensions(GRID_COLUMNS * GRID_ROWS).
SwitchGenInit ==
    /\ LET shape == reduceDimensions(SwitchGridColumns, SwitchGridRows,
                                     SwitchGridColumns * SwitchGridRows)
       IN  /\ ACTUAL_GRID_COLUMNS = shape[1]
           /\ ACTUAL_GRID_ROWS = shape[2]
    /\ genMode = "none"
    /\ sourceSprites = {}
    /\ chosen = <<>>
    /\ macguffin = Undefined
    /\ items = <<>>
    /\ attempt = 0
    /\ swapIndex = NoIndex
    /\ adjacencyChecks = 0
    /\ reshuffles = 0
    /\ genPc = "idle"

InitSwitch == SwitchGenInit /\ DimIdle /\ RoundIdle /\ SeedIdle /\ AppIdle /\ UtilIdle

\* A level start after a mode switch: returnToModeSelect has emptied the grid
\* (grid.innerHTML = ''), a mode button set currentMode, and startLevel dispatches
\* to MODES[currentMode].start(grid, opts), whose first statement calls the mode's
\* generator.
startLevelDispatch ==
    /\ genPc \in {"idle", "built"}
    /\ genMode' \in SwitchModes
    /\ gridSprites' = <<>>
    /\ genPc' = "call"
    /\ UNCHANGED <<ACTUAL_GRID_COLUMNS, ACTUAL_GRID_ROWS, sourceSprites, chosen, macguffin,
                   items, attempt, swapIndex, adjacencyChecks, reshuffles>>
    /\ UNCHANGED <<removed, fadeOut, isTransitioning, touchStartCell, pressedCell,
                   pendingOnWin, startLevelTimeoutId, lastResult, lastCell, winFadeStage,
                   lastWasRemoved, reactivated, continues, completes, onWinCalls,
                   winLevelCalls, activations, roundPc>>
    /\ UNCHANGED <<dimVars, seedVars, appVars, utilVars>>

\* startModeLevel(gridEl, opts, MAX_CELLS, { items }, checkWin) once the generator
\* has returned: computeGridDimensions(maxCells), then buildGrid(gridEl, items, ...).
\* The generator's locals are gone when start() returns.
startModeLevelAfterGenerate ==
    /\ genPc = "returned"
    /\ genMode \in SwitchModes
    /\ ACTUAL_GRID_COLUMNS' = computeGridDimensions(genMode)[1]
    /\ ACTUAL_GRID_ROWS' = computeGridDimensions(genMode)[2]
    /\ gridSprites' = items
    /\ chosen' = <<>>
    /\ macguffin' = Undefined
    /\ items' = <<>>
    /\ attempt' = 0
    /\ swapIndex' = NoIndex
    /\ adjacencyChecks' = 0
    /\ reshuffles' = 0
    /\ genPc' = "built"
    /\ UNCHANGED <<genMode, sourceSprites>>
    /\ UNCHANGED <<removed, fadeOut, isTransitioning, touchStartCell, pressedCell,
                   pendingOnWin, startLevelTimeoutId, lastResult, lastCell, winFadeStage,
                   lastWasRemoved, reactivated, continues, completes, onWinCalls,
                   winLevelCalls, activations, roundPc>>
    /\ UNCHANGED <<dimVars, seedVars, appVars, utilVars>>

SwitchNext ==
    \/ startLevelDispatch
    \/ PickAPairBegin
    \/ PickAPairAttempt
    \/ DiscoverBegin
    \/ DiscoverSeparate
    \/ PeachPartyGenerate
    \/ PerfectPearingGenerate
    \/ startModeLevelAfterGenerate

SpecSwitch == InitSwitch /\ [][SwitchNext]_vars

(***************************************************************************)
(* app.js: the title screen, the mode select screen, the transition from   *)
(* a mode button to a level, the win transition (winLevel, the staged      *)
(* macguffin fade, scheduleDrainAndLevel, startLevel) and the back actions *)
(* (abortTransitionToLevel, returnToModeSelect, returnToTitle), one action *)
(* per handler and per timer callback.                                     *)
(*                                                                         *)
(* A timer is pending from its setTimeout until it fires or is cleared;    *)
(* the delays themselves are not modelled, so timers fire in any order.    *)
(* The level on the grid is abstract: one click-to-remove mode whose onWin *)
(* is wrapped by wrapOnWinWithJingleAndDelay and one macguffin mode whose  *)
(* checkWin result goes to winLevel at once, each with a representative    *)
(* layout (the generators are the subject of SpecGen and SpecSwitch).      *)
(***************************************************************************)
\* Subtle Tea: const SUBMODE_ORDER = ['leaves', 'teapot', 'teacup'], 0-based in the source.
SUBMODE_ORDER == << "leaves", "teapot", "teacup" >>

\* SUBMODE_ORDER.indexOf(submode), 0-based
SubmodeIndex(submode) == (CHOOSE k \in 1..Len(SUBMODE_ORDER) : SUBMODE_ORDER[k] = submode) - 1

\* getNextSubmode(): SUBMODE_ORDER[(idx + 1) % SUBMODE_ORDER.length]
getNextSubmode(last) == SUBMODE_ORDER[((SubmodeIndex(last) + 1) % Len(SUBMODE_ORDER)) + 1]

\* Mutation of chooseSubmode: isFirstLevelOfSession is not looked at.
chooseSubmodeIgnoresFirstLevel(isFirstLevel, last) == getNextSubmode(last)

\* const submode = isFirstLevel ? 'leaves' : getNextSubmode();
chooseSubmode(isFirstLevel, last) == IF isFirstLevel THEN "leaves" ELSE getNextSubmode(last)

\* The macguffin of a submode's generator.
SubmodeMacguffin(submode) ==
    IF submode = "leaves" THEN LEAVES_MACGUFFIN
    ELSE IF submode = "teapot" THEN TEAPOT_MACGUFFIN
    ELSE TEACUP_MACGUFFIN

WrappedModes == {"peach-party"}
MacguffinModes == {"pick-a-pair", "subtle-tea"}
AppModes == WrappedModes \cup MacguffinModes

\* The sprite whose activation decides the level of a mode.
WinningSprite(mode) ==
    IF mode \in WrappedModes THEN PEACH_TARGET
    ELSE IF mode = "subtle-tea" THEN SubmodeMacguffin(lastSubmode)
    ELSE SPRITES_FOR_PICK_A_PAIR[1]

\* What mode.start builds: the winning sprite in the first cell, a filler elsewhere.
LevelWith(sprite) == [c \in Cells |-> IF c = 1 THEN sprite ELSE PeachFillerNames[1]]

RepresentativeLevel(mode) == LevelWith(WinningSprite(mode))

\* The cells of the grid element (none after grid.innerHTML = '').
GridCells == DOMAIN gridSprites

\* The variables no handler of app.js touches.
AppRestFrame ==
    UNCHANGED <<dimVars, genVars, seedVars, utilVars, touchStartCell, pressedCell, lastResult, lastCell,
                winFadeStage, lastWasRemoved, reactivated, continues, completes, onWinCalls,
                winLevelCalls, activations>>

\* The same for a handler that neither enters a mode nor starts a level.
AppFrame ==
    /\ AppRestFrame
    /\ UNCHANGED <<isFirstLevelOfSession, lastSubmode, enteredNoStart, submodeBeforeStart>>

\* The mode buttons can be clicked: the mode screen shows and the title screen,
\* which holds it, is not hidden.
ModeButtonsShown == ~modeScreenHidden /\ ~titleHidden

\* isInLevel() and isOnModeSelect()
isInLevel == titleHidden
isOnModeSelect == ~modeScreenHidden

\* setupTitleScreenClickHandler: the first click on the title screen reveals the
\* mode screen; with the mode screen shown the handler returns.
TitleScreenClick ==
    /\ ~titleHidden
    /\ modeScreenHidden
    /\ modeScreenHidden' = FALSE
    /\ lastHandler' = "TitleScreenClick"
    /\ UNCHANGED <<titleHidden, isTransitioningToLevel, isReturningToModeSelect,
                   isReturningToTitle, currentMode, modeTimer, returnTimer, titleTimer,
                   macguffinFadeTimers, drainDelayTimers, drainRunning, startLevelOrigin,
                   lastStartOrigin, returnedNoClick, abortedNoClick, winState, gridSprites,
                   fadeOut, removed, isTransitioning, pendingOnWin, startLevelTimeoutId,
                   roundPc>>
    /\ AppFrame

\* A mode button is clicked: startGameFromMode(modeId, btn) sets the mode and the
\* two flags, clears the tracked timeouts and sets the outer timeout.
startGameFromMode ==
    \E modeId \in AppModes :
        /\ ModeButtonsShown
        /\ isTransitioningToLevel' = TRUE
        /\ currentMode' = modeId
        /\ modeTimer' = "outer"
        /\ lastHandler' = "startGameFromMode"
        /\ returnedNoClick' = FALSE
        /\ abortedNoClick' = FALSE
        /\ UNCHANGED <<titleHidden, modeScreenHidden, isReturningToModeSelect,
                       isReturningToTitle, returnTimer, titleTimer, macguffinFadeTimers,
                       drainDelayTimers, drainRunning, startLevelOrigin, lastStartOrigin,
                       winState, gridSprites, fadeOut, removed, isTransitioning, pendingOnWin,
                       startLevelTimeoutId, roundPc, lastSubmode, submodeBeforeStart>>
        /\ isFirstLevelOfSession' = TRUE
        /\ enteredNoStart' = TRUE
        /\ AppRestFrame

\* The outer timeout of startGameFromMode fires: it returns when the transition
\* was aborted, otherwise it fades the button and sets the inner timeout.
ModeButtonFadeTimer ==
    /\ modeTimer = "outer"
    /\ modeTimer' = IF isTransitioningToLevel THEN "inner" ELSE "none"
    /\ lastHandler' = "ModeButtonFadeTimer"
    /\ UNCHANGED <<titleHidden, modeScreenHidden, isTransitioningToLevel,
                   isReturningToModeSelect, isReturningToTitle, currentMode, returnTimer,
                   titleTimer, macguffinFadeTimers, drainDelayTimers, drainRunning,
                   startLevelOrigin, lastStartOrigin, returnedNoClick, abortedNoClick,
                   winState, gridSprites, fadeOut, removed, isTransitioning, pendingOnWin,
                   startLevelTimeoutId, roundPc>>
    /\ AppFrame

\* The inner timeout of startGameFromMode fires: it returns when the transition
\* was aborted, otherwise it hides the title screen and calls scheduleDrainAndLevel.
ModeSelectToLevelTimer ==
    /\ modeTimer = "inner"
    /\ titleHidden' = (titleHidden \/ isTransitioningToLevel)
    /\ modeTimer' = "none"
    /\ drainRunning' = (drainRunning \/ isTransitioningToLevel)
    /\ startLevelOrigin' = IF isTransitioningToLevel THEN "mode-select" ELSE startLevelOrigin
    /\ lastHandler' = IF isTransitioningToLevel THEN "ModeSelectToLevelTimer" ELSE "ModeSelectToLevelTimerAborted"
    /\ startLevelTimeoutId' = (startLevelTimeoutId \/ isTransitioningToLevel)
    /\ UNCHANGED <<modeScreenHidden, isTransitioningToLevel, isReturningToModeSelect,
                   isReturningToTitle, currentMode, returnTimer, titleTimer,
                   macguffinFadeTimers, drainDelayTimers, lastStartOrigin, returnedNoClick,
                   abortedNoClick, winState, gridSprites, fadeOut, removed, isTransitioning,
                   pendingOnWin, roundPc>>
    /\ AppFrame

\* Mutation of appStartLevel: isTransitioning is not cleared.
appStartLevelKeepsTransitioning ==
    /\ startLevelTimeoutId
    /\ isTransitioningToLevel' = FALSE
    /\ startLevelOrigin' = "none"
    /\ lastStartOrigin' = startLevelOrigin
    /\ lastHandler' = "startLevel"
    /\ winState' = "none"
    /\ gridSprites' = IF currentMode = "null" THEN gridSprites
                      ELSE IF currentMode = "subtle-tea"
                      THEN LevelWith(SubmodeMacguffin(chooseSubmode(isFirstLevelOfSession, lastSubmode)))
                      ELSE RepresentativeLevel(currentMode)
    /\ isFirstLevelOfSession' = IF currentMode = "null" THEN isFirstLevelOfSession ELSE FALSE
    /\ lastSubmode' = IF currentMode = "subtle-tea"
                      THEN chooseSubmode(isFirstLevelOfSession, lastSubmode)
                      ELSE lastSubmode
    /\ enteredNoStart' = FALSE
    /\ submodeBeforeStart' = lastSubmode
    /\ fadeOut' = IF currentMode = "null" THEN fadeOut ELSE {}
    /\ removed' = IF currentMode = "null" THEN removed ELSE {}
    /\ isTransitioning' = isTransitioning
    /\ startLevelTimeoutId' = FALSE
    /\ roundPc' = IF currentMode = "null" THEN roundPc ELSE "level"
    /\ UNCHANGED <<titleHidden, modeScreenHidden, isReturningToModeSelect,
                   isReturningToTitle, currentMode, modeTimer, returnTimer, titleTimer,
                   macguffinFadeTimers, drainDelayTimers, drainRunning, returnedNoClick,
                   abortedNoClick, pendingOnWin>>
    /\ AppRestFrame

\* The startLevel timeout fires: startLevel clears the flags and the timeout id and,
\* with a mode chosen, hands isFirstLevelOfSession to mode.start and clears it; the
\* mode builds the level's grid, Subtle Tea that of the submode it chooses.
appStartLevel ==
    /\ startLevelTimeoutId
    /\ isTransitioningToLevel' = FALSE
    /\ startLevelOrigin' = "none"
    /\ lastStartOrigin' = startLevelOrigin
    /\ lastHandler' = "startLevel"
    /\ winState' = "none"
    /\ gridSprites' = IF currentMode = "null" THEN gridSprites
                      ELSE IF currentMode = "subtle-tea"
                      THEN LevelWith(SubmodeMacguffin(chooseSubmode(isFirstLevelOfSession, lastSubmode)))
                      ELSE RepresentativeLevel(currentMode)
    /\ isFirstLevelOfSession' = IF currentMode = "null" THEN isFirstLevelOfSession ELSE FALSE
    /\ lastSubmode' = IF currentMode = "subtle-tea"
                      THEN chooseSubmode(isFirstLevelOfSession, lastSubmode)
                      ELSE lastSubmode
    /\ enteredNoStart' = FALSE
    /\ submodeBeforeStart' = lastSubmode
    /\ fadeOut' = IF currentMode = "null" THEN fadeOut ELSE {}
    /\ removed' = IF currentMode = "null" THEN removed ELSE {}
    /\ isTransitioning' = FALSE
    /\ startLevelTimeoutId' = FALSE
    /\ roundPc' = IF currentMode = "null" THEN roundPc ELSE "level"
    /\ UNCHANGED <<titleHidden, modeScreenHidden, isReturningToModeSelect,
                   isReturningToTitle, currentMode, modeTimer, returnTimer, titleTimer,
                   macguffinFadeTimers, drainDelayTimers, drainRunning, returnedNoClick,
                   abortedNoClick, pendingOnWin>>
    /\ AppRestFrame

\* A cell that does not decide the level is activated: the listener passes
\* shouldIgnoreInput, checkWin returns false and nothing of app.js changes.
LevelActivation ==
    /\ GridCells # {}
    /\ ~shouldIgnoreInput
    /\ \E c \in GridCells : gridSprites[c] # WinningSprite(currentMode)
    /\ lastHandler' = "LevelActivation"
    /\ UNCHANGED <<titleHidden, modeScreenHidden, isTransitioningToLevel,
                   isReturningToModeSelect, isReturningToTitle, currentMode, modeTimer,
                   returnTimer, titleTimer, macguffinFadeTimers, drainDelayTimers,
                   drainRunning, startLevelOrigin, lastStartOrigin, returnedNoClick,
                   abortedNoClick, winState, gridSprites, fadeOut, removed, isTransitioning,
                   pendingOnWin, startLevelTimeoutId, roundPc>>
    /\ AppFrame

\* The winning cell is activated and checkWin returns a truthy result: a wrapped
\* mode removes the cell and sets the timer of wrapOnWinWithJingleAndDelay, a
\* macguffin mode calls winLevel(result) at once, which sets isTransitioning, fades
\* the other cells out and sets the macguffin fade timer.
LevelWon ==
    /\ GridCells # {}
    /\ ~shouldIgnoreInput
    /\ \E c \in GridCells \ removed : gridSprites[c] = WinningSprite(currentMode)
    /\ pendingOnWin + macguffinFadeTimers + drainDelayTimers < MaxPendingTimers
    /\ macguffinFadeTimers' = IF currentMode \in MacguffinModes THEN macguffinFadeTimers + 1
                               ELSE macguffinFadeTimers
    /\ lastHandler' = "LevelWon"
    /\ winState' = IF currentMode \in MacguffinModes THEN "pending" ELSE winState
    /\ fadeOut' = IF currentMode \in MacguffinModes
                   THEN fadeOut \cup {c \in GridCells : gridSprites[c] # WinningSprite(currentMode)}
                   ELSE fadeOut
    /\ removed' = IF currentMode \in WrappedModes
                   THEN {c \in GridCells : gridSprites[c] = WinningSprite(currentMode)}
                   ELSE removed
    /\ isTransitioning' = (isTransitioning \/ currentMode \in MacguffinModes)
    /\ pendingOnWin' = IF currentMode \in WrappedModes THEN pendingOnWin + 1 ELSE pendingOnWin
    /\ UNCHANGED <<titleHidden, modeScreenHidden, isTransitioningToLevel,
                   isReturningToModeSelect, isReturningToTitle, currentMode, modeTimer,
                   returnTimer, titleTimer, drainDelayTimers, drainRunning,
                   startLevelOrigin, lastStartOrigin, returnedNoClick, abortedNoClick,
                   gridSprites, startLevelTimeoutId, roundPc>>
    /\ AppFrame

\* The timer of wrapOnWinWithJingleAndDelay fires: opts.onWin(result) is winLevel({}),
\* which sets isTransitioning, fades every cell out and calls scheduleDrainAndLevel.
\* Nothing keeps the id of this timer.
DelayedOnWinTimer ==
    /\ pendingOnWin > 0
    /\ drainRunning' = TRUE
    /\ startLevelOrigin' = "win"
    /\ lastHandler' = "DelayedOnWinTimer"
    /\ winState' = "pending"
    /\ fadeOut' = GridCells
    /\ isTransitioning' = TRUE
    /\ pendingOnWin' = pendingOnWin - 1
    /\ startLevelTimeoutId' = TRUE
    /\ UNCHANGED <<titleHidden, modeScreenHidden, isTransitioningToLevel,
                   isReturningToModeSelect, isReturningToTitle, currentMode, modeTimer,
                   returnTimer, titleTimer, macguffinFadeTimers, drainDelayTimers,
                   lastStartOrigin, returnedNoClick, abortedNoClick, gridSprites, removed,
                   roundPc>>
    /\ AppFrame

\* The first timer of winLevel's staged fade fires: the macguffins fade out and the
\* second timer is set. Nothing keeps the id of either timer.
WinMacguffinFadeTimer ==
    /\ macguffinFadeTimers > 0
    /\ macguffinFadeTimers' = macguffinFadeTimers - 1
    /\ drainDelayTimers' = drainDelayTimers + 1
    /\ lastHandler' = "WinMacguffinFadeTimer"
    /\ fadeOut' = GridCells
    /\ UNCHANGED <<titleHidden, modeScreenHidden, isTransitioningToLevel,
                   isReturningToModeSelect, isReturningToTitle, currentMode, modeTimer,
                   returnTimer, titleTimer, drainRunning, startLevelOrigin, lastStartOrigin,
                   returnedNoClick, abortedNoClick, winState, gridSprites, removed,
                   isTransitioning, pendingOnWin, startLevelTimeoutId, roundPc>>
    /\ AppFrame

\* The second timer of winLevel's staged fade fires: scheduleDrainAndLevel.
WinDrainDelayTimer ==
    /\ drainDelayTimers > 0
    /\ drainDelayTimers' = drainDelayTimers - 1
    /\ drainRunning' = TRUE
    /\ startLevelOrigin' = "win"
    /\ lastHandler' = "WinDrainDelayTimer"
    /\ startLevelTimeoutId' = TRUE
    /\ UNCHANGED <<titleHidden, modeScreenHidden, isTransitioningToLevel,
                   isReturningToModeSelect, isReturningToTitle, currentMode, modeTimer,
                   returnTimer, titleTimer, macguffinFadeTimers, lastStartOrigin,
                   returnedNoClick, abortedNoClick, winState, gridSprites, fadeOut, removed,
                   isTransitioning, pendingOnWin, roundPc>>
    /\ AppFrame

\* showLiquidDrain's last timer fires: the overlay is hidden and __drainCancel is
\* cleared.
DrainEnd ==
    /\ drainRunning
    /\ drainRunning' = FALSE
    /\ lastHandler' = "DrainEnd"
    /\ UNCHANGED <<titleHidden, modeScreenHidden, isTransitioningToLevel,
                   isReturningToModeSelect, isReturningToTitle, currentMode, modeTimer,
                   returnTimer, titleTimer, macguffinFadeTimers, drainDelayTimers,
                   startLevelOrigin, lastStartOrigin, returnedNoClick, abortedNoClick,
                   winState, gridSprites, fadeOut, removed, isTransitioning, pendingOnWin,
                   startLevelTimeoutId, roundPc>>
    /\ AppFrame

\* Mutation of abortTransitionToLevel: the startLevel timeout is not cleared.
abortTransitionToLevelKeepsLevelStart ==
    /\ isTransitioningToLevel
    /\ titleHidden' = FALSE
    /\ isTransitioningToLevel' = FALSE
    /\ modeTimer' = "none"
    /\ drainRunning' = FALSE
    /\ lastHandler' = IF startLevelOrigin = "mode-select" THEN "abortTransitionToLevelAfterDrainStart"
                      ELSE "abortTransitionToLevel"
    /\ abortedNoClick' = TRUE
    /\ winState' = IF winState = "pending" THEN "backed" ELSE winState
    /\ UNCHANGED <<startLevelTimeoutId, startLevelOrigin, modeScreenHidden, isReturningToModeSelect, isReturningToTitle,
                   currentMode, returnTimer, titleTimer, macguffinFadeTimers,
                   drainDelayTimers, lastStartOrigin, returnedNoClick, gridSprites, fadeOut,
                   removed, isTransitioning, pendingOnWin, roundPc>>
    /\ AppFrame

\* ESC or the Juice Box button while isTransitioningToLevel: the transition's
\* timeouts and the startLevel timeout are cleared, the drain is cancelled and the
\* title screen is shown again. The history records whether a level start was
\* pending (the function's case 2).
abortTransitionToLevel ==
    /\ isTransitioningToLevel
    /\ titleHidden' = FALSE
    /\ isTransitioningToLevel' = FALSE
    /\ modeTimer' = "none"
    /\ drainRunning' = FALSE
    /\ startLevelOrigin' = "none"
    /\ lastHandler' = IF startLevelOrigin = "mode-select" THEN "abortTransitionToLevelAfterDrainStart"
                      ELSE "abortTransitionToLevel"
    /\ abortedNoClick' = TRUE
    /\ winState' = IF winState = "pending" THEN "backed" ELSE winState
    /\ startLevelTimeoutId' = FALSE
    /\ UNCHANGED <<modeScreenHidden, isReturningToModeSelect, isReturningToTitle,
                   currentMode, returnTimer, titleTimer, macguffinFadeTimers,
                   drainDelayTimers, lastStartOrigin, returnedNoClick, gridSprites, fadeOut,
                   removed, isTransitioning, pendingOnWin, roundPc>>
    /\ AppFrame

\* Mutation of returnToModeSelect: the isReturningToModeSelect guard is missing.
returnToModeSelectUnguarded ==
    /\ ~isTransitioningToLevel
    /\ isInLevel
    /\ isTransitioningToLevel' = FALSE
    /\ isReturningToModeSelect' = TRUE
    /\ modeTimer' = "none"
    /\ returnTimer' = "fade"
    /\ drainRunning' = FALSE
    /\ startLevelOrigin' = "none"
    /\ lastHandler' = "returnToModeSelect"
    /\ returnedNoClick' = TRUE
    /\ winState' = IF winState = "pending" THEN "backed" ELSE winState
    /\ fadeOut' = GridCells
    /\ isTransitioning' = TRUE
    /\ startLevelTimeoutId' = FALSE
    /\ UNCHANGED <<titleHidden, modeScreenHidden, isReturningToTitle, currentMode,
                   titleTimer, macguffinFadeTimers, drainDelayTimers, lastStartOrigin,
                   abortedNoClick, gridSprites, removed, pendingOnWin, roundPc>>
    /\ AppFrame

\* ESC or the Juice Box button in a level, unless a return is under way: the drain
\* is cancelled, the startLevel timeout and the mode-transition timeouts are
\* cleared, the cells fade out and the first of two nested timers is set.
returnToModeSelect ==
    /\ ~isTransitioningToLevel
    /\ isInLevel
    /\ ~isReturningToModeSelect
    /\ isTransitioningToLevel' = FALSE
    /\ isReturningToModeSelect' = TRUE
    /\ modeTimer' = "none"
    /\ returnTimer' = "fade"
    /\ drainRunning' = FALSE
    /\ startLevelOrigin' = "none"
    /\ lastHandler' = "returnToModeSelect"
    /\ returnedNoClick' = TRUE
    /\ winState' = IF winState = "pending" THEN "backed" ELSE winState
    /\ fadeOut' = GridCells
    /\ isTransitioning' = TRUE
    /\ startLevelTimeoutId' = FALSE
    /\ UNCHANGED <<titleHidden, modeScreenHidden, isReturningToTitle, currentMode,
                   titleTimer, macguffinFadeTimers, drainDelayTimers, lastStartOrigin,
                   abortedNoClick, gridSprites, removed, pendingOnWin, roundPc>>
    /\ AppFrame

\* The outer timer of returnToModeSelect fires (FADE_MS) and sets the inner one.
ReturnFadeTimer ==
    /\ returnTimer = "fade"
    /\ returnTimer' = "linger"
    /\ lastHandler' = "ReturnFadeTimer"
    /\ UNCHANGED <<titleHidden, modeScreenHidden, isTransitioningToLevel,
                   isReturningToModeSelect, isReturningToTitle, currentMode, modeTimer,
                   titleTimer, macguffinFadeTimers, drainDelayTimers, drainRunning,
                   startLevelOrigin, lastStartOrigin, returnedNoClick, abortedNoClick,
                   winState, gridSprites, fadeOut, removed, isTransitioning, pendingOnWin,
                   startLevelTimeoutId, roundPc>>
    /\ AppFrame

\* The inner timer of returnToModeSelect fires: the grid is emptied, the title and
\* mode screens are shown and both flags are cleared.
ReturnLingerTimer ==
    /\ returnTimer = "linger"
    /\ titleHidden' = FALSE
    /\ modeScreenHidden' = FALSE
    /\ isReturningToModeSelect' = FALSE
    /\ returnTimer' = "none"
    /\ lastHandler' = "ReturnLingerTimer"
    /\ gridSprites' = <<>>
    /\ fadeOut' = {}
    /\ removed' = {}
    /\ isTransitioning' = FALSE
    /\ roundPc' = "mode-select"
    /\ UNCHANGED <<isTransitioningToLevel, isReturningToTitle, currentMode, modeTimer,
                   titleTimer, macguffinFadeTimers, drainDelayTimers, drainRunning,
                   startLevelOrigin, lastStartOrigin, returnedNoClick, abortedNoClick,
                   winState, pendingOnWin, startLevelTimeoutId>>
    /\ AppFrame

\* ESC or the Juice Box button on the mode select screen, unless a return to the
\* title is under way: the drain is cancelled and the timer that hides the mode
\* screen is set.
returnToTitle ==
    /\ ~isTransitioningToLevel
    /\ ~isInLevel
    /\ isOnModeSelect
    /\ ~isReturningToTitle
    /\ isReturningToTitle' = TRUE
    /\ titleTimer' = TRUE
    /\ drainRunning' = FALSE
    /\ lastHandler' = "returnToTitle"
    /\ winState' = IF winState = "pending" THEN "backed" ELSE winState
    /\ UNCHANGED <<titleHidden, modeScreenHidden, isTransitioningToLevel,
                   isReturningToModeSelect, currentMode, modeTimer, returnTimer,
                   macguffinFadeTimers, drainDelayTimers, startLevelOrigin, lastStartOrigin,
                   returnedNoClick, abortedNoClick, gridSprites, fadeOut, removed,
                   isTransitioning, pendingOnWin, startLevelTimeoutId, roundPc>>
    /\ AppFrame

\* The timer of returnToTitle fires: the mode screen is hidden, the flag cleared.
ReturnToTitleTimer ==
    /\ titleTimer
    /\ modeScreenHidden' = TRUE
    /\ isReturningToTitle' = FALSE
    /\ titleTimer' = FALSE
    /\ lastHandler' = "ReturnToTitleTimer"
    /\ UNCHANGED <<titleHidden, isTransitioningToLevel, isReturningToModeSelect,
                   currentMode, modeTimer, returnTimer, macguffinFadeTimers,
                   drainDelayTimers, drainRunning, startLevelOrigin, lastStartOrigin,
                   returnedNoClick, abortedNoClick, winState, gridSprites, fadeOut, removed,
                   isTransitioning, pendingOnWin, startLevelTimeoutId, roundPc>>
    /\ AppFrame

\* The page as loaded: initDefaultGridDimensions has run, the grid is empty.
InitApp == DimIdle /\ GenIdle /\ RoundIdle /\ SeedIdle /\ AppIdle /\ UtilIdle

AppNext ==
    \/ TitleScreenClick
    \/ startGameFromMode
    \/ ModeButtonFadeTimer
    \/ ModeSelectToLevelTimer
    \/ appStartLevel
    \/ LevelActivation
    \/ LevelWon
    \/ DelayedOnWinTimer
    \/ WinMacguffinFadeTimer
    \/ WinDrainDelayTimer
    \/ DrainEnd
    \/ abortTransitionToLevel
    \/ returnToModeSelect
    \/ ReturnFadeTimer
    \/ ReturnLingerTimer
    \/ returnToTitle
    \/ ReturnToTitleTimer

SpecApp == InitApp /\ [][AppNext]_vars

\* The timer callbacks: a timer that is pending and not cleared fires.
AppTimersFire ==
    /\ WF_vars(ModeButtonFadeTimer)
    /\ WF_vars(ModeSelectToLevelTimer)
    /\ WF_vars(appStartLevel)
    /\ WF_vars(DelayedOnWinTimer)
    /\ WF_vars(WinMacguffinFadeTimer)
    /\ WF_vars(WinDrainDelayTimer)
    /\ WF_vars(DrainEnd)
    /\ WF_vars(ReturnFadeTimer)
    /\ WF_vars(ReturnLingerTimer)
    /\ WF_vars(ReturnToTitleTimer)

\* SpecApp with its timers firing; the player's clicks and keys stay optional.
SpecAppLive == InitApp /\ [][AppNext]_vars /\ AppTimersFire

(***************************************************************************)
(* A click-to-remove level with the back action: the grid's handlers of    *)
(* SpecRound together with returnToModeSelect and its two timers.          *)
(***************************************************************************)
\* app.js once startLevel has built a level from the mode select screen: the
\* title screen is hidden, the mode screen keeps showing behind it.
AppInLevel ==
    /\ titleHidden = TRUE
    /\ modeScreenHidden = FALSE
    /\ isTransitioningToLevel = FALSE
    /\ isReturningToModeSelect = FALSE
    /\ isReturningToTitle = FALSE
    /\ currentMode = "perfect-pearing"
    /\ modeTimer = "none"
    /\ returnTimer = "none"
    /\ titleTimer = FALSE
    /\ macguffinFadeTimers = 0
    /\ drainDelayTimers = 0
    /\ drainRunning = FALSE
    /\ startLevelOrigin = "none"
    /\ lastStartOrigin = "mode-select"
    /\ lastHandler = "startLevel"
    /\ returnedNoClick = FALSE
    /\ abortedNoClick = FALSE
    /\ winState = "none"
    /\ isFirstLevelOfSession = FALSE
    /\ lastSubmode = "teacup"
    /\ enteredNoStart = FALSE
    /\ submodeBeforeStart = "teacup"

InitRoundBack == RoundInit /\ DimIdle /\ GenIdle /\ SeedIdle /\ AppInLevel /\ UtilIdle

RoundBackNext ==
    \/ RoundNext
    \/ returnToModeSelect
    \/ ReturnFadeTimer
    \/ ReturnLingerTimer

SpecRoundBack == InitRoundBack /\ [][RoundBackNext]_vars

(***************************************************************************)
(* areAdjacent as a function of its arguments: one call, then the call     *)
(* with the two positions exchanged.                                       *)
(***************************************************************************)
\* The other parts at rest while areAdjacent runs.
AdjFrame == UtilFrame /\ UNCHANGED <<drainVars, gridVars, audioVars, extraVars>>

\* A call areAdjacent(adjPos1, adjPos2, adjColumns) about to run.
InitAdjacent ==
    /\ DimIdle /\ GenIdle /\ RoundIdle /\ SeedIdle /\ AppIdle /\ DrainIdle /\ GridIdle /\ AudioIdle /\ ExtraIdle
    /\ adjPos1 \in 0..MaxPosition
    /\ adjPos2 \in 0..MaxPosition
    /\ adjColumns \in 1..MaxAdjacentColumns
    /\ adjacent = FALSE
    /\ adjacentSwapped = FALSE
    /\ adjPc = "call"

\* areAdjacent(pos1, pos2, numColumns)
areAdjacentCall ==
    /\ adjPc = "call"
    /\ adjacent' = areAdjacent(adjPos1, adjPos2, adjColumns)
    /\ adjPc' = "swapped"
    /\ UNCHANGED <<adjPos1, adjPos2, adjColumns, adjacentSwapped>>
    /\ AdjFrame

\* areAdjacent(pos2, pos1, numColumns)
areAdjacentCallSwapped ==
    /\ adjPc = "swapped"
    /\ adjacentSwapped' = areAdjacent(adjPos2, adjPos1, adjColumns)
    /\ adjPc' = "returned"
    /\ UNCHANGED <<adjPos1, adjPos2, adjColumns, adjacent>>
    /\ AdjFrame

AdjacentNext ==
    \/ areAdjacentCall
    \/ areAdjacentCallSwapped

SpecAdjacent == InitAdjacent /\ [][AdjacentNext]_vars

(***************************************************************************)
(* The liquid drain of transitions.js.  Every showLiquidDrain call makes   *)
(* one drain with its own cancelled flag and its own timers; drains are    *)
(* numbered in the order they start.  The callbacks of a drain run one at  *)
(* a time: animation frame, 300 ms timeout, audio metadata, animation      *)
(* frame, drain timeout.  clearTimeout removes a pending timeout; a        *)
(* pending animation frame or promise cannot be removed and still runs.    *)
(***************************************************************************)
DrainFrame == UtilFrame /\ UNCHANGED <<adjVars, gridVars, audioVars, extraVars>>

Drains == 1..Len(drainStage)

\* Stages whose pending callback is a timeout kept in the drain's timeouts.
TimeoutStages == {"t1", "t2"}

\* A drain that has started and has neither ended nor been cancelled.
DrainInProgress(d) ==
    /\ drainStage[d] \in {"raf1", "t1", "loading", "raf2", "t2"}
    /\ ~drainCancelled[d]

\* Mutation of CancelledCheck: the callbacks no longer look at the flag.
CancelledCheckSkipped(d) == FALSE

\* if (cancelled) return;  at the top of a drain's callbacks
CancelledCheck(d) == drainCancelled[d]

\* resetOverlayToHidden(liquidOverlay)
resetOverlayToHidden(classes) == (classes \ {"visible", "draining"}) \cup {"hidden"}

\* cancel(fadeOut, onCancelled) of drain d: the stages afterwards.
StagesAfterCancel(d) ==
    [drainStage EXCEPT ![d] = IF @ \in TimeoutStages THEN "cleared" ELSE @]

\* cancel(fadeOut, onCancelled): does it take the fading branch?
CancelFades(withFade) == withFade /\ "visible" \in overlayClasses

\* cancel(fadeOut, onCancelled): the overlay's classes afterwards.
ClassesAfterCancel(withFade) ==
    IF CancelFades(withFade)
    THEN overlayClasses \ {"draining", "visible"}
    ELSE resetOverlayToHidden(overlayClasses)

\* showLiquidDrain(liquidOverlay, callbacks): cancelLiquidDrain(liquidOverlay)
\* first, then the new drain with its first animation frame pending.
showLiquidDrain ==
    /\ drainsStarted < MaxDrains
    /\ LET stages == IF drainCancel # 0 THEN StagesAfterCancel(drainCancel) ELSE drainStage
           flags == IF drainCancel # 0
                    THEN [drainCancelled EXCEPT ![drainCancel] = TRUE]
                    ELSE drainCancelled
           classes == IF drainCancel # 0 THEN ClassesAfterCancel(FALSE) ELSE overlayClasses
       IN /\ drainStage' = Append(stages, "raf1")
          /\ drainCancelled' = Append(flags, FALSE)
          /\ overlayClasses' = classes \ {"hidden", "draining", "visible"}
          /\ drainAudio' = IF drainCancel # 0 THEN 0 ELSE drainAudio
    /\ drainCancel' = Len(drainStage) + 1
    /\ drainsStarted' = drainsStarted + 1
    /\ drainStep' = "showLiquidDrain"
    /\ UNCHANGED <<fadeTimeouts, transitionEnded, lateEffects>>
    /\ DrainFrame

\* cancelLiquidDrain(liquidOverlay, { onCancelled, fadeOut }) with a drain's
\* cancel stored in __drainCancel.
cancelLiquidDrain ==
    /\ drainCancel # 0
    /\ \E withFade \in BOOLEAN :
          /\ overlayClasses' = ClassesAfterCancel(withFade)
          /\ fadeTimeouts' = IF CancelFades(withFade)
                             THEN fadeTimeouts \cup {drainCancel}
                             ELSE fadeTimeouts
          /\ drainStep' = IF CancelFades(withFade) THEN "cancelWithFade" ELSE "cancel"
    /\ drainStage' = StagesAfterCancel(drainCancel)
    /\ drainCancelled' = [drainCancelled EXCEPT ![drainCancel] = TRUE]
    /\ drainAudio' = 0
    /\ drainCancel' = 0
    /\ UNCHANGED <<transitionEnded, lateEffects, drainsStarted>>
    /\ DrainFrame

\* cancelLiquidDrain with nothing in __drainCancel: onCancelled at most.
cancelLiquidDrainIdle ==
    /\ drainCancel = 0
    /\ drainsStarted > 0
    /\ drainStep' = "cancelNothing"
    /\ UNCHANGED <<drainCancel, drainStage, drainCancelled, drainAudio, overlayClasses,
                   fadeTimeouts, transitionEnded, lateEffects, drainsStarted>>
    /\ DrainFrame

\* The first doubleRAF callback of drain d.
DrainFirstFrame(d) ==
    /\ drainStage[d] = "raf1"
    /\ IF CancelledCheck(d)
       THEN /\ drainStage' = [drainStage EXCEPT ![d] = "returnedFirstFrame"]
            /\ UNCHANGED <<overlayClasses, lateEffects>>
       ELSE /\ drainStage' = [drainStage EXCEPT ![d] = "t1"]
            /\ overlayClasses' = overlayClasses \cup {"visible"}
            /\ lateEffects' = IF drainCancelled[d] THEN lateEffects \cup {d} ELSE lateEffects
    /\ drainStep' = "firstFrame"
    /\ UNCHANGED <<drainCancel, drainCancelled, drainAudio, fadeTimeouts, transitionEnded,
                   drainsStarted>>
    /\ DrainFrame

\* The 300 ms timeout t1 of drain d.
DrainShownTimer(d) ==
    /\ drainStage[d] = "t1"
    /\ drainStage' = [drainStage EXCEPT ![d] = IF CancelledCheck(d) THEN "returnedShown"
                                                ELSE "loading"]
    /\ drainStep' = "shownTimer"
    /\ UNCHANGED <<drainCancel, drainCancelled, drainAudio, overlayClasses, fadeTimeouts,
                   transitionEnded, lateEffects, drainsStarted>>
    /\ DrainFrame

\* loadAudioMetadata(DRAIN_AUDIO_SRC).then(...) of drain d.
DrainAudioLoaded(d) ==
    /\ drainStage[d] = "loading"
    /\ IF CancelledCheck(d)
       THEN /\ drainStage' = [drainStage EXCEPT ![d] = "returnedLoaded"]
            /\ UNCHANGED drainAudio
       ELSE /\ drainStage' = [drainStage EXCEPT ![d] = "raf2"]
            /\ drainAudio' = d
    /\ drainStep' = "audioLoaded"
    /\ UNCHANGED <<drainCancel, drainCancelled, overlayClasses, fadeTimeouts, transitionEnded,
                   lateEffects, drainsStarted>>
    /\ DrainFrame

\* The second doubleRAF callback of drain d.
DrainSecondFrame(d) ==
    /\ drainStage[d] = "raf2"
    /\ IF CancelledCheck(d)
       THEN /\ drainStage' = [drainStage EXCEPT ![d] = "returnedSecondFrame"]
            /\ UNCHANGED <<overlayClasses, lateEffects>>
       ELSE /\ drainStage' = [drainStage EXCEPT ![d] = "t2"]
            /\ overlayClasses' = overlayClasses \cup {"draining"}
            /\ lateEffects' = IF drainCancelled[d] THEN lateEffects \cup {d} ELSE lateEffects
    /\ drainStep' = "secondFrame"
    /\ UNCHANGED <<drainCancel, drainCancelled, drainAudio, fadeTimeouts, transitionEnded,
                   drainsStarted>>
    /\ DrainFrame

\* The drain timeout t2 of drain d: the drain has run to its end.
DrainEndTimer(d) ==
    /\ drainStage[d] = "t2"
    /\ drainStage' = [drainStage EXCEPT ![d] = "ended"]
    /\ drainCancel' = 0
    /\ drainAudio' = 0
    /\ overlayClasses' = overlayClasses \cup {"hidden"}
    /\ transitionEnded' = transitionEnded \cup {d}
    /\ lateEffects' = IF drainCancelled[d] THEN lateEffects \cup {d} ELSE lateEffects
    /\ drainStep' = "endTimer"
    /\ UNCHANGED <<drainCancelled, fadeTimeouts, drainsStarted>>
    /\ DrainFrame

\* The fadeTimeout that cancel(true, onCancelled) of drain d left behind.
DrainFadeTimer(d) ==
    /\ d \in fadeTimeouts
    /\ fadeTimeouts' = fadeTimeouts \ {d}
    /\ overlayClasses' = overlayClasses \cup {"hidden"}
    /\ drainStep' = "fadeTimer"
    /\ UNCHANGED <<drainCancel, drainStage, drainCancelled, drainAudio, transitionEnded,
                   lateEffects, drainsStarted>>
    /\ DrainFrame

InitDrain == DimIdle /\ GenIdle /\ RoundIdle /\ SeedIdle /\ AppIdle /\ UtilIdle

DrainNext ==
    \/ showLiquidDrain
    \/ cancelLiquidDrain
    \/ cancelLiquidDrainIdle
    \/ \E d \in Drains : DrainFirstFrame(d)
    \/ \E d \in Drains : DrainShownTimer(d)
    \/ \E d \in Drains : DrainAudioLoaded(d)
    \/ \E d \in Drains : DrainSecondFrame(d)
    \/ \E d \in Drains : DrainEndTimer(d)
    \/ \E d \in Drains : DrainFadeTimer(d)

SpecDrain == InitDrain /\ [][DrainNext]_vars

(***************************************************************************)
(* One grid across several levels: buildGrid for level after level, and    *)
(* the listeners setupTouchHandlers attaches to the grid.  Levels are      *)
(* numbered in the order they are built; a level's checkWin, onWin and     *)
(* shouldIgnoreInput are named by its number.  buildGrid empties the grid, *)
(* so the cells in it are always those of the level built last; a cell     *)
(* kept in touchStartCell may be of an earlier level.                      *)
(***************************************************************************)
GridFrame == UtilFrame /\ UNCHANGED <<adjVars, drainVars, audioVars, extraVars>>

\* Mutation of NeedsTouchSetup: the flag on the grid is not looked at.
NeedsTouchSetupAlways(flag) == TRUE

\* if (!gridEl.dataset.touchHandlersSetup)
NeedsTouchSetup(flag) == ~flag

\* getCellUnderTouch(gridEl, e): a cell of the grid, so of the level built
\* last, or null.
CellsUnderTouch == {0, levelsBuilt}

\* buildGrid(gridEl, items, { checkWin, onWin, shouldIgnoreInput })
buildGrid ==
    /\ levelsBuilt < MaxBuilds
    /\ levelsBuilt' = levelsBuilt + 1
    /\ levelHandlers' = levelsBuilt + 1
    /\ listenerSets' = IF NeedsTouchSetup(touchHandlersSetup) THEN listenerSets + 1
                       ELSE listenerSets
    /\ touchHandlersSetup' = TRUE
    /\ gridStep' = "buildGrid"
    /\ UNCHANGED <<trackedCell, pressedCellLevel, evaluatedWith, evaluatedCell,
                   builtAtEvaluation, deliveries>>
    /\ GridFrame

\* The grid's touchstart and touchmove listeners: when the current level
\* takes input, the cell under the finger, if any, becomes touchStartCell.
GridTouchStartOrMove ==
    /\ listenerSets > 0
    /\ \E ignoring \in BOOLEAN, cell \in CellsUnderTouch :
          trackedCell' = IF levelHandlers = 0 \/ ignoring \/ cell = 0 THEN trackedCell
                         ELSE cell
    /\ gridStep' = "touchstart"
    /\ UNCHANGED <<touchHandlersSetup, listenerSets, levelHandlers, levelsBuilt,
                   pressedCellLevel, evaluatedWith, evaluatedCell, builtAtEvaluation,
                   deliveries>>
    /\ GridFrame

\* The grid's touchend listener: h = gridEl.__levelHandlers read when the
\* event arrives; the cell under the finger, or else touchStartCell, goes
\* to h.checkWin, and a win to h.onWin.  Every attached set of listeners
\* runs it.
GridTouchEnd ==
    /\ listenerSets > 0
    /\ \E ignoring \in BOOLEAN, cell \in CellsUnderTouch :
          LET finalCell == IF cell # 0 THEN cell ELSE trackedCell
          IN IF levelHandlers = 0 \/ ignoring
             THEN /\ deliveries' = 0
                  /\ UNCHANGED <<trackedCell, evaluatedWith, evaluatedCell, builtAtEvaluation>>
             ELSE /\ trackedCell' = 0
                  /\ IF finalCell # 0
                     THEN /\ evaluatedWith' = levelHandlers
                          /\ evaluatedCell' = finalCell
                          /\ builtAtEvaluation' = levelsBuilt
                          /\ deliveries' = listenerSets
                     ELSE /\ deliveries' = 0
                          /\ UNCHANGED <<evaluatedWith, evaluatedCell, builtAtEvaluation>>
    /\ gridStep' = "touchend"
    /\ UNCHANGED <<touchHandlersSetup, listenerSets, levelHandlers, levelsBuilt,
                   pressedCellLevel>>
    /\ GridFrame

\* The grid's touchcancel listener.
GridTouchCancel ==
    /\ listenerSets > 0
    /\ trackedCell' = 0
    /\ gridStep' = "touchcancel"
    /\ UNCHANGED <<touchHandlersSetup, listenerSets, levelHandlers, levelsBuilt,
                   pressedCellLevel, evaluatedWith, evaluatedCell, builtAtEvaluation,
                   deliveries>>
    /\ GridFrame

\* The grid's mousedown listener: the pressed cell is kept on the grid.
GridMouseDown ==
    /\ listenerSets > 0
    /\ \E ignoring \in BOOLEAN, cell \in CellsUnderTouch :
          pressedCellLevel' = IF levelHandlers = 0 \/ ignoring \/ cell = 0
                              THEN pressedCellLevel ELSE cell
    /\ gridStep' = "mousedown"
    /\ UNCHANGED <<touchHandlersSetup, listenerSets, levelHandlers, levelsBuilt,
                   trackedCell, evaluatedWith, evaluatedCell, builtAtEvaluation, deliveries>>
    /\ GridFrame

\* The document's mouseup listener.
GridMouseUp ==
    /\ listenerSets > 0
    /\ pressedCellLevel' = 0
    /\ gridStep' = "mouseup"
    /\ UNCHANGED <<touchHandlersSetup, listenerSets, levelHandlers, levelsBuilt,
                   trackedCell, evaluatedWith, evaluatedCell, builtAtEvaluation, deliveries>>
    /\ GridFrame

InitGrid == DimIdle /\ GenIdle /\ RoundIdle /\ SeedIdle /\ AppIdle /\ UtilIdle

GridNext ==
    \/ buildGrid
    \/ GridTouchStartOrMove
    \/ GridTouchEnd
    \/ GridTouchCancel
    \/ GridMouseDown
    \/ GridMouseUp

SpecGrid == InitGrid /\ [][GridNext]_vars

(***************************************************************************)
(* playRandomExcludingLast called again and again with one source list and *)
(* one ref.  The ref is a property of window and may hold a source from    *)
(* before the first call.                                                  *)
(***************************************************************************)
AudioFrame == UtilFrame /\ UNCHANGED <<adjVars, drainVars, gridVars, extraVars>>

SPLIT_SOUNDS ==
    <<"audio/Banana Split (1).mp3", "audio/Banana Split (2).mp3",
      "audio/Banana Split (3).mp3">>

\* The source lists tried: every list of one to MaxSources entries taken
\* from SPLIT_SOUNDS, SPLIT_SOUNDS itself among them.
SourceLists == UNION {[1..n -> Range(SPLIT_SOUNDS)] : n \in 1..MaxSources}

\* Mutation of ChoicesExcludingLast: the last source stays among the choices.
ChoicesKeepingLast(list, last) == list

\* let choices = srcs; if (ref.last != null && srcs.length > 1) choices =
\* srcs.filter((s) => s !== ref.last);
ChoicesExcludingLast(list, last) ==
    IF last \notin {"null", Undefined} /\ Len(list) > 1
    THEN SelectSeq(list, LAMBDA s : s # last)
    ELSE list

\* choices[Math.floor(Math.random() * choices.length)]: any entry; entry 0
\* of an empty list is undefined.
ChosenFrom(choices) == IF choices = <<>> THEN {Undefined} ELSE Range(choices)

InitAudio ==
    /\ DimIdle /\ GenIdle /\ RoundIdle /\ SeedIdle /\ AppIdle
    /\ AdjIdle /\ DrainIdle /\ GridIdle /\ ExtraIdle
    /\ audioSrcs \in SourceLists
    /\ refLast \in {"null"} \cup Range(SPLIT_SOUNDS)
    /\ lastPlayed = "none"
    /\ playedBefore = "none"
    /\ plays = 0

\* playRandomExcludingLast(srcs, ref)
playRandomExcludingLast ==
    /\ plays < MaxPlays
    /\ \E picked \in ChosenFrom(ChoicesExcludingLast(audioSrcs, refLast)) :
          /\ refLast' = picked
          /\ lastPlayed' = picked
    /\ playedBefore' = lastPlayed
    /\ plays' = plays + 1
    /\ UNCHANGED audioSrcs
    /\ AudioFrame

AudioNext == playRandomExcludingLast

SpecAudio == InitAudio /\ [][AudioNext]_vars

(***************************************************************************)
(* addExtraTargetsByChance on its own, one loop iteration per step, on     *)
(* lists with and without the target in them.                              *)
(***************************************************************************)
ExtraFrame == UtilFrame /\ UNCHANGED <<adjVars, drainVars, gridVars, audioVars>>

\* Sprites of the lists tried: the two targets of the callers and a filler.
ExtraSprites == {PEACH_TARGET, BANANA_TARGET, "kiwi"}

\* Mutation of ConvertOneNonTarget: the cell is picked among all cells.
ConvertAnyCell(list, target) ==
    IF list = <<>> THEN {list}
    ELSE {[list EXCEPT ![i] = target] : i \in 1..Len(list)}

\* The body of if (Math.random() < 0.5): nonTargetIndices, and when there
\* is one, items[idx] = target for a random one of them.
ConvertOneNonTarget(list, target) ==
    LET nonTargetIndices == {i \in 1..Len(list) : list[i] # target}
    IN IF nonTargetIndices = {} THEN {list}
       ELSE {[list EXCEPT ![idx] = target] : idx \in nonTargetIndices}

InitExtra ==
    /\ DimIdle /\ GenIdle /\ RoundIdle /\ SeedIdle /\ AppIdle
    /\ AdjIdle /\ DrainIdle /\ GridIdle /\ AudioIdle
    /\ extraItems \in UNION {[1..n -> ExtraSprites] : n \in 0..MaxExtraCells}
    /\ extraTarget \in {PEACH_TARGET, BANANA_TARGET}
    /\ extraRunsGiven \in 0..MaxExtraRuns
    /\ extraTrial = 0
    /\ extraStart = extraItems
    /\ extraBefore = extraItems
    /\ extraCoin = FALSE
    /\ extraPc = "loop"

\* One iteration of for (let i = 0; i < extraRuns; i++)
ExtraTrial ==
    /\ extraPc = "loop"
    /\ extraTrial < extraRunsGiven
    /\ \E coin \in BOOLEAN :
          /\ extraCoin' = coin
          /\ IF coin
             THEN extraItems' \in ConvertOneNonTarget(extraItems, extraTarget)
             ELSE extraItems' = extraItems
    /\ extraBefore' = extraItems
    /\ extraTrial' = extraTrial + 1
    /\ UNCHANGED <<extraTarget, extraRunsGiven, extraStart, extraPc>>
    /\ ExtraFrame

\* The loop ends and the function returns.
ExtraReturn ==
    /\ extraPc = "loop"
    /\ extraTrial >= extraRunsGiven
    /\ extraPc' = "returned"
    /\ UNCHANGED <<extraItems, extraTarget, extraRunsGiven, extraTrial, extraStart,
                   extraBefore, extraCoin>>
    /\ ExtraFrame

ExtraNext ==
    \/ ExtraTrial
    \/ ExtraReturn

SpecExtra == InitExtra /\ [][ExtraNext]_vars

(***************************************************************************)
(* The back actions called where their guards return at once.  ESC and the *)
(* Juice Box button reach returnToModeSelect and returnToTitle this way    *)
(* while a return is under way; abortTransitionToLevel is taken as the     *)
(* function, called with no transition under way.                          *)
(***************************************************************************)
\* returnToModeSelect(): if (isReturningToModeSelect) return;
returnToModeSelectIgnored ==
    /\ ~isTransitioningToLevel
    /\ isInLevel
    /\ isReturningToModeSelect
    /\ lastHandler' = "returnToModeSelectIgnored"
    /\ UNCHANGED <<titleHidden, modeScreenHidden, isTransitioningToLevel,
                   isReturningToModeSelect, isReturningToTitle, currentMode, modeTimer,
                   returnTimer, titleTimer, macguffinFadeTimers, drainDelayTimers,
                   drainRunning, startLevelOrigin, lastStartOrigin, returnedNoClick,
                   abortedNoClick, winState, gridSprites, fadeOut, removed,
                   isTransitioning, pendingOnWin, startLevelTimeoutId, roundPc>>
    /\ AppFrame

\* returnToTitle(): if (isReturningToTitle) return;
returnToTitleIgnored ==
    /\ ~isTransitioningToLevel
    /\ ~isInLevel
    /\ isOnModeSelect
    /\ isReturningToTitle
    /\ lastHandler' = "returnToTitleIgnored"
    /\ UNCHANGED <<titleHidden, modeScreenHidden, isTransitioningToLevel,
                   isReturningToModeSelect, isReturningToTitle, currentMode, modeTimer,
                   returnTimer, titleTimer, macguffinFadeTimers, drainDelayTimers,
                   drainRunning, startLevelOrigin, lastStartOrigin, returnedNoClick,
                   abortedNoClick, winState, gridSprites, fadeOut, removed,
                   isTransitioning, pendingOnWin, startLevelTimeoutId, roundPc>>
    /\ AppFrame

\* abortTransitionToLevel(): if (!isTransitioningToLevel) return;
abortTransitionToLevelIgnored ==
    /\ ~isTransitioningToLevel
    /\ lastHandler' = "abortTransitionToLevelIgnored"
    /\ UNCHANGED <<titleHidden, modeScreenHidden, isTransitioningToLevel,
                   isReturningToModeSelect, isReturningToTitle, currentMode, modeTimer,
                   returnTimer, titleTimer, macguffinFadeTimers, drainDelayTimers,
                   drainRunning, startLevelOrigin, lastStartOrigin, returnedNoClick,
                   abortedNoClick, winState, gridSprites, fadeOut, removed,
                   isTransitioning, pendingOnWin, startLevelTimeoutId, roundPc>>
    /\ AppFrame

BackSpamNext ==
    \/ AppNext
    \/ returnToModeSelectIgnored
    \/ returnToTitleIgnored
    \/ abortTransitionToLevelIgnored

SpecBackSpam == InitApp /\ [][BackSpamNext]_vars

GenReturned == genPc = "returned"

\* The grid positions (0-based) of the returned layout that hold a symbol.
PositionsOf(symbol) == {i \in 0..(Len(items) - 1) : items[i + 1] = symbol}

Least(S) == CHOOSE x \in S : \A y \in S : x <= y

\* 8-directional adjacency as the specification defines it: row distance <= 1,
\* column distance <= 1, and not the same position.
KingAdjacent(p, q, columns) ==
    /\ p # q
    /\ Abs((p \div columns) - (q \div columns)) <= 1
    /\ Abs((p % columns) - (q % columns)) <= 1

GridPositions == 0..(TotalCells - 1)

\* The two duplicate positions of the returned layout are adjacent.
PairAdjacent ==
    \E p \in PositionsOf(macguffin), q \in PositionsOf(macguffin) :
        KingAdjacent(p, q, ACTUAL_GRID_COLUMNS)

\* The grid holds two cells that are not adjacent: separation is possible.
SeparationPossible ==
    \E p \in GridPositions, q \in GridPositions :
        p # q /\ ~KingAdjacent(p, q, ACTUAL_GRID_COLUMNS)

\* The claims' grids: columns >= 2, rows >= 2, columns * rows >= 4.
TwoByTwoOrLarger ==
    /\ ACTUAL_GRID_COLUMNS >= 2
    /\ ACTUAL_GRID_ROWS >= 2
    /\ TotalCells >= 4

C2_FallbackOnlyWhenImpossible ==
    (GenReturned /\ genMode = "pick-a-pair" /\ PairAdjacent) => ~SeparationPossible

(***************************************************************************)
(* C8: every generator returns a symbol list of length columns * rows on a *)
(* grid resolved for its mode's cell budget.                               *)
(***************************************************************************)
C8_LengthIsGridSize ==
    GenReturned => Len(items) = ACTUAL_GRID_COLUMNS * ACTUAL_GRID_ROWS

\* Pick A Pair returned on a grid smaller than its catalog (the subset branch).
C8_Witness ==
    /\ GenReturned
    /\ genMode = "pick-a-pair"
    /\ TotalCells = 3
    /\ Len(items) = 3

\* How many cells of the returned layout hold a symbol.
Occurrences(symbol) == Cardinality(PositionsOf(symbol))

(***************************************************************************)
(* C9: in every layout a duplicate generator returns (a grid of at least   *)
(* two cells, the pattern's minimum) exactly one symbol appears exactly    *)
(* twice and every other symbol of the layout appears exactly once.        *)
(***************************************************************************)
C9_ExactlyOneDuplicate ==
    (GenReturned /\ genMode \in DuplicateModes /\ TotalCells >= 2) =>
        /\ Cardinality({symbol \in Range(items) : Occurrences(symbol) = 2}) = 1
        /\ \A symbol \in Range(items) : Occurrences(symbol) \in {1, 2}
        /\ Occurrences(macguffin) = 2

\* Pick A Pair returned after at least one reshuffle and then a swap.
C9_Witness ==
    /\ GenReturned
    /\ genMode = "pick-a-pair"
    /\ reshuffles > 0
    /\ swapIndex # NoIndex
    /\ Occurrences(macguffin) = 2

(***************************************************************************)
(* C10: the separation loop of Pick A Pair terminates: it makes at most    *)
(* maxAttempts adjacency checks and at most maxAttempts - 1 reshuffles,    *)
(* every iteration that does not return uses up one attempt, and when the  *)
(* attempts are used up the layout is returned, not an error.              *)
(***************************************************************************)
C10_SeparationLoopBounded ==
    genMode = "pick-a-pair" =>
        /\ adjacencyChecks <= maxAttempts
        /\ reshuffles <= maxAttempts - 1
        /\ genPc = "loop" => (attempt < maxAttempts /\ adjacencyChecks = attempt)
        /\ attempt >= maxAttempts => genPc = "returned"
        /\ genPc = "threw" => TotalCells < 2

\* The fallback: every attempt used, the layout returned with the pair still adjacent.
C10_Witness ==
    /\ GenReturned
    /\ genMode = "pick-a-pair"
    /\ attempt = maxAttempts
    /\ adjacencyChecks = maxAttempts
    /\ reshuffles = maxAttempts - 1
    /\ PairAdjacent

(***************************************************************************)
(* C5: in a click-to-remove level with N >= 1 target cells, as long as no  *)
(* already removed cell is activated, the target activations before the    *)
(* last return undefined (AcceptContinue, no onWin call) and the Nth       *)
(* returns true (AcceptComplete, one onWin call), whatever non-target      *)
(* activations are interleaved: true was returned once exactly when every  *)
(* target cell is removed and never before, and undefined for every other  *)
(* removed cell.                                                           *)
(***************************************************************************)
C5_LastTargetCompletes ==
    (roundPc # "idle" /\ ~reactivated) =>
        /\ completes = (IF TargetCells \subseteq removed THEN 1 ELSE 0)
        /\ continues = Cardinality(removed) - completes
        /\ continues <= Cardinality(TargetCells) - 1
        /\ onWinCalls = completes
        /\ lastResult = "true" => TargetCells \subseteq removed
        /\ removed \subseteq TargetCells

\* Two targets, each activated once, with two rejected activations interleaved.
C5_Witness ==
    /\ ~reactivated
    /\ Cardinality(TargetCells) = 2
    /\ continues = 1
    /\ completes = 1
    /\ activations = 4
    /\ lastResult = "true"

(***************************************************************************)
(* C6: activating a cell that is already removed always yields Reject      *)
(* (false): never undefined, never true, never an onWin call.  The click   *)
(* listener refutes it: checkWinClickToRemove does not look at the cell's  *)
(* 'removed' class, so a second click on a removed target is accepted.     *)
(***************************************************************************)
C6_RemovedCellRejected ==
    lastWasRemoved => lastResult = "false"

(***************************************************************************)
(* C7: a level is completed at most once: after checkWin has returned true *)
(* no later activation is accepted, and winLevel runs at most once for the *)
(* built level.  The delay of the wrapped onWin refutes it: until winLevel *)
(* runs isTransitioning is false, and a click on the removed last target   *)
(* returns true again and sets a second timer.                             *)
(***************************************************************************)
C7_CompleteAtMostOnce ==
    /\ completes <= 1
    /\ winLevelCalls <= 1

(***************************************************************************)
(* C11: for desired columns, rows >= 1 and maxCells >= 1 the reduction     *)
(* terminates and returns columns >= 1 and rows >= 1: at every point of    *)
(* the call both dimensions are at least 1, the loop only runs on a shape  *)
(* of more than one cell, and it has made at most (desiredCols - 1) +      *)
(* (desiredRows - 1) decrements, after which the shape is 1 x 1 and fits.  *)
(***************************************************************************)
C11_ReductionEndsWithPositiveShape ==
    (ValidBudget /\ dimPc \in {"loop", "check", "returned"}) =>
        /\ actualColumns >= 1
        /\ actualRows >= 1
        /\ Decrements(actualColumns, actualRows) = Len(reductionPath) - 1
        /\ Len(reductionPath) - 1 <= (desiredCols - 1) + (desiredRows - 1)
        /\ dimPc = "loop" => actualColumns * actualRows > 1

\* The longest reduction: a grid larger than 1 x 1 in both dimensions brought to 1 x 1.
C11_Witness ==
    /\ Returned /\ ValidBudget
    /\ desiredCols > 1 /\ desiredRows > 1
    /\ actualColumns = 1 /\ actualRows = 1
    /\ Len(reductionPath) = desiredCols + desiredRows - 1

(***************************************************************************)
(* C12: on a grid of fewer than 2 cells a generator that needs a duplicate *)
(* (Pick A Pair, Discover the Duplicate) fails with an error and returns   *)
(* no layout.  Discover the Duplicate refutes it: it has no such guard and *)
(* returns a one-cell layout holding undefined.                            *)
(***************************************************************************)
C12_TooFewCellsThrows ==
    (genMode \in DuplicateModes /\ TotalCells < 2) =>
        /\ genPc \in {"call", "threw"}
        /\ items = <<>>

(***************************************************************************)
(* C13 as stated: with maxCells = 0 the reduction ends and returns 0 x 0.  *)
(* The reduction refutes the shape: the loop stops as soon as one          *)
(* dimension is 0.                                                         *)
(***************************************************************************)
C13_ZeroBudgetGivesZeroByZero ==
    (Returned /\ maxCells = 0) => (actualColumns = 0 /\ actualRows = 0)

(***************************************************************************)
(* C13 amended: with maxCells = 0 the reduction ends after desiredCols +   *)
(* desiredRows - 1 decrements and returns 0 columns by 1 row: the path     *)
(* passes 1 x 1, where the tie decrements the columns.                     *)
(***************************************************************************)
C13_ZeroBudgetGivesZeroByOne ==
    (maxCells = 0 /\ dimPc \in {"loop", "check", "returned"}) =>
        /\ Len(reductionPath) - 1 <= desiredCols + desiredRows - 1
        /\ actualColumns >= 0
        /\ actualRows >= 1
        /\ Returned => /\ actualColumns = 0
                       /\ actualRows = 1
                       /\ Len(reductionPath) - 1 = desiredCols + desiredRows - 1

\* A reduction with maxCells = 0 that returned from a grid with more rows than columns.
C13_Witness ==
    /\ Returned
    /\ maxCells = 0
    /\ desiredRows > desiredCols
    /\ desiredCols > 1
    /\ actualColumns * actualRows = 0

\* The target symbol of a collect-every-target generator.
TargetOf(mode) == IF mode = "peach-party" THEN PEACH_TARGET ELSE BANANA_TARGET

MinimumCountModes == {"peach-party", "go-bananas"}

(***************************************************************************)
(* C14 as stated: a layout of Peach Party or Go Bananas holds between 1    *)
(* and 4 cells with the target symbol.  Go Bananas refutes it: its fill    *)
(* draws from ALL_SPRITES, which holds 'banana', so the fill alone can put *)
(* a banana on any number of cells.                                        *)
(***************************************************************************)
C14_TargetCountOneToFour ==
    (GenReturned /\ genMode \in MinimumCountModes) =>
        Occurrences(TargetOf(genMode)) \in 1..4

(***************************************************************************)
(* C14 amended: a Peach Party layout, whose fillers exclude the target,    *)
(* holds between 1 and 4 target cells; a Go Bananas layout holds at least  *)
(* 1 banana and up to as many as the grid has cells.                       *)
(***************************************************************************)
C14_TargetCountByMode ==
    (GenReturned /\ genMode \in MinimumCountModes) =>
        /\ Occurrences(TargetOf(genMode)) >= 1
        /\ Occurrences(TargetOf(genMode)) <= TotalCells
        /\ genMode = "peach-party" => Occurrences(PEACH_TARGET) <= 4

\* A Peach Party layout in which all three extra runs added a peach.
C14_Witness ==
    /\ GenReturned
    /\ genMode = "peach-party"
    /\ TotalCells > 4
    /\ Occurrences(PEACH_TARGET) = 4

UniqueModes == {"apple-of-my-eye", "subtle-tea-leaves", "subtle-tea-teapot",
                "subtle-tea-teacup"}

(***************************************************************************)
(* C16: a layout of Apple of My Eye or of a Subtle Tea submode holds the   *)
(* round's target symbol (the returned apple or macguffin) on exactly one  *)
(* cell; every other cell holds a different symbol.                        *)
(***************************************************************************)
C16_ExactlyOneTarget ==
    (GenReturned /\ genMode \in UniqueModes) =>
        /\ Occurrences(macguffin) = 1
        /\ genMode = "apple-of-my-eye" =>
              Cardinality({i \in 1..Len(items) : items[i] \in APPLE_SPRITES}) = 1
        /\ genMode = "subtle-tea-teacup" => Occurrences(TEAPOT_MACGUFFIN) = 1

\* An Apple of My Eye layout of six cells with a repeated filler.
C16_Witness ==
    /\ GenReturned
    /\ genMode = "apple-of-my-eye"
    /\ TotalCells = 6
    /\ Occurrences(macguffin) = 1
    /\ \E symbol \in Range(items) : Occurrences(symbol) >= 2

(***************************************************************************)
(* C20: on a grid of 1 column by 2 rows Pick A Pair returns two symbols    *)
(* that are the same, through the fallback: every adjacency test finds the *)
(* pair adjacent, no swap cell exists, all maxAttempts attempts and        *)
(* maxAttempts - 1 reshuffles are used, and no error is raised.            *)
(***************************************************************************)
C20_TwoCellFallback ==
    (genMode = "pick-a-pair" /\ ACTUAL_GRID_COLUMNS = 1 /\ ACTUAL_GRID_ROWS = 2) =>
        /\ genPc # "threw"
        /\ GenReturned =>
              /\ Len(items) = 2
              /\ items[1] = items[2]
              /\ attempt = maxAttempts
              /\ adjacencyChecks = maxAttempts
              /\ reshuffles = maxAttempts - 1
              /\ swapIndex = NoIndex

\* The 1 x 2 layout returned by the fallback.
C20_Witness ==
    /\ GenReturned
    /\ genMode = "pick-a-pair"
    /\ ACTUAL_GRID_COLUMNS = 1
    /\ ACTUAL_GRID_ROWS = 2
    /\ items[1] = items[2]
    /\ attempt = maxAttempts

\* A step in which checkWin was called on a cell whose sprite is no target.
NonTargetActivation ==
    /\ activations' = activations + 1
    /\ gridSprites[lastCell'] \notin RoundTargets

(***************************************************************************)
(* C17: activating a cell whose sprite is not among the targets returns    *)
(* false (Reject) and changes nothing of the round: no cell is removed,    *)
(* the remaining target cells stay the same, onWin is not called and no    *)
(* timer is set.                                                           *)
(***************************************************************************)
C17_NonTargetRejectedWithoutChange ==
    [][NonTargetActivation =>
          /\ lastResult' = "false"
          /\ removed' = removed
          /\ Remaining(removed') = Remaining(removed)
          /\ UNCHANGED <<continues, completes, onWinCalls, pendingOnWin, fadeOut,
                         isTransitioning, startLevelTimeoutId, winLevelCalls>>]_vars

\* A non-target cell was activated and rejected after a target had been removed.
C17_Witness ==
    /\ roundPc = "level"
    /\ lastCell # NoCell
    /\ gridSprites[lastCell] \notin RoundTargets
    /\ lastResult = "false"
    /\ removed # {}
    /\ Remaining(removed) # {}

\* The cells of a generated layout that hold a pear.
PearPositions == {i \in 1..Len(items) : items[i] \in PEAR_SPRITES}

(***************************************************************************)
(* C15: a Perfect Pearing layout holds a pear (green or gold) on exactly   *)
(* two cells, at two distinct positions, and in the level built from it    *)
(* checkWin returns true after exactly two accepted activations, one on    *)
(* each of those cells, and not before: the first returns undefined.       *)
(***************************************************************************)
C15_TwoPearsTwoActivations ==
    /\ GenReturned =>
          /\ Len(items) = TotalCells
          /\ Cardinality(PearPositions) = 2
    /\ roundPc # "idle" =>
          /\ TargetCells = PearPositions
          /\ Cardinality(TargetCells) = 2
    /\ (roundPc # "idle" /\ ~reactivated) =>
          /\ completes = (IF removed = TargetCells THEN 1 ELSE 0)
          /\ continues = Cardinality(removed) - completes
          /\ onWinCalls = completes
          /\ lastResult = "true" => (continues = 1 /\ removed = TargetCells)

\* A level with one pear of each kind, completed by activating each once.
C15_Witness ==
    /\ roundPc = "level"
    /\ ~reactivated
    /\ \E c1 \in TargetCells, c2 \in TargetCells :
          gridSprites[c1] = "pear-green" /\ gridSprites[c2] = "pear-gold"
    /\ continues = 1
    /\ completes = 1
    /\ lastResult = "true"

(***************************************************************************)
(* C18: in a single-instance level (duplicate-finding or unique-finding)   *)
(* the first accepted activation completes the level: checkWin never       *)
(* returns undefined, an activation of a macguffin cell (either one of the *)
(* duplicated pair, or the unique target) returns the win object, winLevel *)
(* runs at once and input is ignored from then on.                         *)
(***************************************************************************)
C18_FirstAcceptCompletes ==
    roundPc # "idle" =>
        /\ continues = 0
        /\ lastResult \in {"none", "false", "object"}
        /\ completes <= 1
        /\ onWinCalls = completes
        /\ winLevelCalls = completes
        /\ lastCell # NoCell =>
              (lastResult = "object" <=> gridSprites[lastCell] = macguffin)
        /\ (completes = 1 /\ roundPc = "level") => isTransitioning
        /\ completes = 0 => ~isTransitioning
        /\ Cardinality(MacguffinCells) = (IF genMode = "pick-a-pair" THEN 2 ELSE 1)

\* A Pick A Pair level won by the first activation, on the second cell of the pair.
C18_Witness ==
    /\ roundPc = "level"
    /\ genMode = "pick-a-pair"
    /\ activations = 1
    /\ completes = 1
    /\ lastCell \in MacguffinCells
    /\ \E other \in MacguffinCells : other < lastCell

(***************************************************************************)
(* C19: on the grid of 3 columns by 7 rows with the catalog of 20 sprites  *)
(* generateLevel returns 21 sprites of which exactly one appears twice and *)
(* every other once, and the two cells of that sprite are not adjacent,    *)
(* whatever the shuffle placed where and whichever swap cell was chosen.   *)
(***************************************************************************)
C19_ScenarioThreeBySeven ==
    (GenReturned /\ genMode = "level") =>
        /\ ACTUAL_GRID_COLUMNS = 3 /\ ACTUAL_GRID_ROWS = 7
        /\ Len(items) = 21
        /\ Occurrences(macguffin) = 2
        /\ \A symbol \in Range(items) \ {macguffin} : Occurrences(symbol) = 1
        /\ Cardinality(Range(items)) = 20
        /\ ~PairAdjacent

\* A returned 3 x 7 layout whose pair was diagonal neighbours and was separated by the swap.
C19_Witness ==
    /\ GenReturned
    /\ genMode = "level"
    /\ Len(items) = 21
    /\ swapIndex # NoIndex
    /\ items[swapIndex + 1] = macguffin
    /\ ~PairAdjacent

\* The separation step of a duplicate generator is about to swap: the pair is
\* adjacent and a valid swap position exists.
SwapEnabled ==
    /\ genPc = "loop"
    /\ genMode \in DuplicateModes
    /\ Len(CollectMacguffinIndices(items, macguffin)) = 2
    /\ areAdjacent(CollectMacguffinIndices(items, macguffin)[1],
                   CollectMacguffinIndices(items, macguffin)[2], ACTUAL_GRID_COLUMNS)
    /\ ValidSwapPositions(items, CollectMacguffinIndices(items, macguffin),
                          ACTUAL_GRID_COLUMNS) # {}

(***************************************************************************)
(* C29: when the two duplicate positions are adjacent and a valid swap     *)
(* position exists, the step exchanges the second duplicate position with  *)
(* a cell that is neither duplicate position and is not adjacent to the    *)
(* first; the first duplicate stays, every other cell is unchanged, and    *)
(* the duplicates are non-adjacent afterwards.                             *)
(***************************************************************************)
C29_SwapMovesOnlySecondDuplicate ==
    [][SwapEnabled =>
        LET indices == CollectMacguffinIndices(items, macguffin)
            first == indices[1]
            second == indices[2]
            target == swapIndex'
        IN  /\ target \in 0..(Len(items) - 1)
            /\ target # first
            /\ target # second
            /\ ~KingAdjacent(first, target, ACTUAL_GRID_COLUMNS)
            /\ Len(items') = Len(items)
            /\ items'[first + 1] = macguffin
            /\ items'[target + 1] = items[second + 1]
            /\ items'[second + 1] = items[target + 1]
            /\ \A i \in 0..(Len(items) - 1) \ {second, target} : items'[i + 1] = items[i + 1]
            /\ CollectMacguffinIndices(items', macguffin') \in {<<first, target>>, <<target, first>>}
            /\ ~KingAdjacent(first, target, ACTUAL_GRID_COLUMNS)
            /\ genPc' = "returned"]_vars

\* Pick A Pair returned right after a swap on its first attempt: the second
\* duplicate sits on the swap cell, which is not next to the first.
C29_Witness ==
    /\ GenReturned
    /\ genMode = "pick-a-pair"
    /\ attempt = 0
    /\ swapIndex # NoIndex
    /\ items[swapIndex + 1] = macguffin
    /\ TotalCells >= 3

\* How many cells of a list hold a symbol.
CountIn(list, symbol) == Cardinality({i \in 1..Len(list) : list[i] = symbol})

(***************************************************************************)
(* C30: on every path through the separation solver (pair already apart,   *)
(* swap, reshuffle, fallback) the returned layout is a permutation of the  *)
(* assembled symbols chosen: nothing is added, dropped or changed.         *)
(***************************************************************************)
C30_ReturnedIsPermutationOfChosen ==
    (GenReturned /\ genMode \in DuplicateModes) =>
        /\ Len(items) = Len(chosen)
        /\ \A symbol \in Range(items) \cup Range(chosen) :
              CountIn(items, symbol) = CountIn(chosen, symbol)

\* Pick A Pair gave up after maxAttempts with reshuffles on the way (the fallback path).
C30_Witness ==
    /\ GenReturned
    /\ genMode = "pick-a-pair"
    /\ attempt = maxAttempts
    /\ reshuffles = maxAttempts - 1
    /\ PairAdjacent
    /\ \A symbol \in Range(chosen) : CountIn(items, symbol) = CountIn(chosen, symbol)

(***************************************************************************)
(* C28: every checkWin follows the grid's return convention: false only    *)
(* for a cell that is not a target, undefined for an accepted activation   *)
(* that does not finish the round, true (or an object) only when the round *)
(* is won.  The closure of modes/go-bananas.js refutes it: it returns      *)
(* remaining.length === 0, which is false for an accepted activation that  *)
(* leaves targets on the grid.                                             *)
(***************************************************************************)
C28_CheckWinConvention ==
    (roundPc = "level" /\ activations > 0) =>
        /\ lastResult = "false" => gridSprites[lastCell] \notin RoundTargets
        /\ lastResult = "undefined" =>
              (gridSprites[lastCell] \in RoundTargets /\ Remaining(removed) # {})
        /\ lastResult \in {"true", "object"} =>
              (gridSprites[lastCell] \in RoundTargets /\ Remaining(removed) = {})

(***************************************************************************)
(* C21: layout generation fails with an error whenever the filler set the  *)
(* pattern draws from is empty, and no returned layout holds an undefined  *)
(* symbol.  fillWithRandom refutes it: on an empty array every draw is     *)
(* sourceSprites[0], undefined, and the generator returns the list.        *)
(***************************************************************************)
C21_EmptyCatalogFails ==
    /\ (genMode \in CatalogModes /\ sourceSprites = {} /\ genPc # "call") => genPc = "threw"
    /\ (genMode \in CatalogModes /\ GenReturned) =>
          \A i \in 1..Len(items) : items[i] # Undefined

C23_GridResolvedBeforeGenerate ==
    /\ (genMode \in SwitchModes /\ genPc \in {"loop", "returned"}) =>
          <<ACTUAL_GRID_COLUMNS, ACTUAL_GRID_ROWS>> = computeGridDimensions(genMode)
    /\ (genMode \in SwitchModes /\ genPc = "built") =>
          Len(gridSprites) = ACTUAL_GRID_COLUMNS * ACTUAL_GRID_ROWS

\* C24: once returnToModeSelect has run from a level, and until the player next
\* clicks a mode button, startLevel does not run and no handler starts a drain
\* (scheduleDrainAndLevel is not called), whatever win timers were pending.
DrainStarters == {"DelayedOnWinTimer", "WinDrainDelayTimer", "ModeSelectToLevelTimer"}
C24_NoLevelStartAfterReturn ==
    returnedNoClick => lastHandler \notin DrainStarters \cup {"startLevel"}

\* C25: once abortTransitionToLevel has run, and until the next mode button click,
\* no timer of the aborted transition is pending, the inner timeout does not hide
\* the title or schedule a level, and no startLevel scheduled by the transition
\* is pending or runs (so the grid is not built for it).
C25_AbortCancelsTransition ==
    abortedNoClick =>
        /\ modeTimer = "none"
        /\ startLevelOrigin # "mode-select"
        /\ lastHandler # "ModeSelectToLevelTimer"
        /\ ~(lastHandler = "startLevel" /\ lastStartOrigin = "mode-select")

\* A transition aborted after its inner timeout had hidden the title and called
\* scheduleDrainAndLevel: the level start is cancelled and the title is back.
C25_Witness ==
    /\ abortedNoClick
    /\ lastHandler = "abortTransitionToLevelAfterDrainStart"
    /\ currentMode \in AppModes
    /\ ~titleHidden
    /\ ~startLevelTimeoutId

C27_NoActivationWhileTransitioning ==
    [][isTransitioning =>
          /\ activations' = activations
          /\ onWinCalls' = onWinCalls
          /\ pendingOnWin' <= pendingOnWin
          /\ removed' \subseteq removed]_vars

\* A return to mode select under way after a win: winLevel has run, input is
\* ignored, cells were activated before and the model would still allow more.
C27_Witness ==
    /\ isTransitioning
    /\ isReturningToModeSelect
    /\ winLevelCalls > 0
    /\ activations > 0
    /\ activations < MaxActivations
    /\ roundPc = "level"

(***************************************************************************)
(* C31: every change of the shape during a reduction decrements exactly    *)
(* one dimension by one, the columns when columns >= rows and the rows     *)
(* otherwise; no change is made once columns * rows <= maxCells; and a     *)
(* desired shape that fits is returned as it is.                           *)
(***************************************************************************)
ReductionRunning == dimPc \in {"loop", "check", "returned"}

C31_StepDecrementsLargerDimension ==
    [][ReductionRunning =>
          /\ (actualColumns * actualRows <= maxCells)
                => (actualColumns' = actualColumns /\ actualRows' = actualRows)
          /\ (<<actualColumns', actualRows'>> # <<actualColumns, actualRows>>)
                => IF actualColumns >= actualRows
                   THEN actualColumns' = actualColumns - 1 /\ actualRows' = actualRows
                   ELSE actualColumns' = actualColumns /\ actualRows' = actualRows - 1
          /\ (dimPc' = "returned" /\ desiredCols * desiredRows <= maxCells)
                => (actualColumns' = desiredCols /\ actualRows' = desiredRows)]_vars

\* A reduction that returned after a step on a tie, a step that shrank the rows
\* of a taller shape and a step that shrank the columns of a wider shape.
C31_Witness ==
    /\ Returned
    /\ \E k \in 1..(Len(reductionPath) - 1) : reductionPath[k][1] = reductionPath[k][2]
    /\ \E k \in 1..(Len(reductionPath) - 1) : reductionPath[k][1] < reductionPath[k][2]
    /\ \E k \in 1..(Len(reductionPath) - 1) : reductionPath[k][1] > reductionPath[k][2]

(***************************************************************************)
(* C32: areAdjacent(p, q, columns) is true exactly when the row distance   *)
(* and the column distance of p and q are both at most 1 and p # q, with   *)
(* row = floor(index / columns) and col = index mod columns; the call with *)
(* p and q exchanged returns the same, and the result is false for p = q.  *)
(***************************************************************************)
RowOf(index, columns) == index \div columns
ColOf(index, columns) == index % columns
Distance(a, b) == IF a >= b THEN a - b ELSE b - a

C32_KingMoveAdjacency ==
    (adjPc = "returned") =>
        /\ adjacent <=>
              /\ Distance(RowOf(adjPos1, adjColumns), RowOf(adjPos2, adjColumns)) <= 1
              /\ Distance(ColOf(adjPos1, adjColumns), ColOf(adjPos2, adjColumns)) <= 1
              /\ adjPos1 # adjPos2
        /\ adjacentSwapped = adjacent
        /\ (adjPos1 = adjPos2) => ~adjacent

\* A diagonal pair found adjacent, on a grid where neither position starts a row.
C32_Witness ==
    /\ adjPc = "returned"
    /\ adjacent
    /\ Distance(RowOf(adjPos1, adjColumns), RowOf(adjPos2, adjColumns)) = 1
    /\ Distance(ColOf(adjPos1, adjColumns), ColOf(adjPos2, adjColumns)) = 1
    /\ adjColumns > 2

(***************************************************************************)
(* C33: when startLevel starts a Subtle Tea level, the submode is leaves   *)
(* if it is the first level since the mode button was clicked, whatever    *)
(* submode was played last, and otherwise the one after the last submode   *)
(* in the cycle leaves -> teapot -> teacup -> leaves.                      *)
(***************************************************************************)
CycleAfter(submode) ==
    IF submode = "leaves" THEN "teapot"
    ELSE IF submode = "teapot" THEN "teacup"
    ELSE "leaves"

C33_SubtleTeaSubmodeOrder ==
    [][(lastHandler' = "startLevel" /\ currentMode = "subtle-tea") =>
          /\ lastSubmode' = IF enteredNoStart THEN "leaves" ELSE CycleAfter(lastSubmode)
          /\ gridSprites'[1] = SubmodeMacguffin(lastSubmode')]_vars

\* Subtle Tea re-entered after a level of the leaves submode was the last one
\* played: the level just started is a leaves level again, not a teapot level.
C33_Witness ==
    /\ lastHandler = "startLevel"
    /\ currentMode = "subtle-tea"
    /\ submodeBeforeStart = "leaves"
    /\ lastSubmode = "leaves"
    /\ lastStartOrigin = "mode-select"
    /\ gridSprites[1] = LEAVES_MACGUFFIN

\* A Subtle Tea session that has gone round the cycle: a leaves level started
\* on the timeout a win scheduled.
C33_CycleWitness ==
    /\ lastHandler = "startLevel"
    /\ currentMode = "subtle-tea"
    /\ submodeBeforeStart = "teacup"
    /\ lastSubmode = "leaves"
    /\ lastStartOrigin = "win"

(***************************************************************************)
(* C34: a call of returnToModeSelect while isReturningToModeSelect, of     *)
(* returnToTitle while isReturningToTitle, or of abortTransitionToLevel    *)
(* while no transition to a level is under way changes no variable of the  *)
(* program and sets or clears no timer.                                    *)
(***************************************************************************)
ReturnToModeSelectCalls == {"returnToModeSelect", "returnToModeSelectIgnored"}
ReturnToTitleCalls == {"returnToTitle", "returnToTitleIgnored"}
AbortCalls == {"abortTransitionToLevel", "abortTransitionToLevelAfterDrainStart",
               "abortTransitionToLevelIgnored"}

\* Everything but the record of which handler ran last.
ProgramState ==
    <<dimVars, genVars, roundVars, seedVars, utilVars,
      titleHidden, modeScreenHidden, isTransitioningToLevel, isReturningToModeSelect,
      isReturningToTitle, currentMode, modeTimer, returnTimer, titleTimer,
      macguffinFadeTimers, drainDelayTimers, drainRunning, startLevelOrigin,
      lastStartOrigin, returnedNoClick, abortedNoClick, winState,
      isFirstLevelOfSession, lastSubmode, enteredNoStart, submodeBeforeStart>>

C34_BackSpamIgnored ==
    [][/\ (isReturningToModeSelect /\ lastHandler' \in ReturnToModeSelectCalls)
             => UNCHANGED ProgramState
       /\ (isReturningToTitle /\ lastHandler' \in ReturnToTitleCalls)
             => UNCHANGED ProgramState
       /\ (~isTransitioningToLevel /\ lastHandler' \in AbortCalls)
             => UNCHANGED ProgramState]_vars

\* ESC pressed again while the second timer of a return to mode select is
\* pending: the timer stays as it is and input stays ignored.
C34_Witness ==
    /\ lastHandler = "returnToModeSelectIgnored"
    /\ isReturningToModeSelect
    /\ returnTimer = "linger"
    /\ isTransitioning

\* C35: at most one liquid drain is in progress at any time; a drain that
\* has been cancelled never has its onTransitionEnd called, and none of its
\* callbacks adds a class to the overlay or ends the drain afterwards.
C35_OneDrainAndCancelIsFinal ==
    /\ Cardinality({d \in Drains : DrainInProgress(d)}) <= 1
    /\ \A d \in Drains : DrainInProgress(d) => drainCancel = d
    /\ \A d \in Drains : drainCancelled[d] => d \notin transitionEnded
    /\ lateEffects = {}

\* C35 witness: the first drain was cancelled by the start of the second
\* while its second animation frame was pending; that callback has run and
\* returned, and the second drain has reached its draining state.
C35_Witness ==
    /\ Len(drainStage) >= 2
    /\ drainCancelled[1]
    /\ drainStage[1] = "returnedSecondFrame"
    /\ drainStage[2] = "t2"
    /\ "draining" \in overlayClasses

\* C36: however many levels are built on one grid, one set of grid
\* listeners is attached, and an activation they deliver goes, once, to the
\* checkWin and onWin of the level built last.
C36_HandlersOnceAndCurrent ==
    /\ listenerSets <= 1
    /\ levelsBuilt >= 1 => listenerSets = 1
    /\ levelHandlers = levelsBuilt
    /\ evaluatedWith = builtAtEvaluation
    /\ deliveries <= 1

\* C36 witness: after a second buildGrid a touch that began on a cell of
\* the first level ended on no cell; the activation went to the second
\* level's callbacks, and a third level has been built since.
C36_Witness ==
    /\ levelsBuilt = 3
    /\ listenerSets = 1
    /\ evaluatedWith = 2
    /\ evaluatedCell = 1
    /\ deliveries = 1

\* C37: with one ref and a source list of more than one entry, no call of
\* playRandomExcludingLast plays what the call before it played, and
\* ref.last is what the last call played.
C37_NoImmediateRepeat ==
    Len(audioSrcs) > 1 =>
        /\ plays >= 1 => refLast = lastPlayed
        /\ plays >= 2 => lastPlayed # playedBefore

\* C37 witness: SPLIT_SOUNDS played three times or more, the last two
\* plays being its second and then its first entry.
C37_Witness ==
    /\ audioSrcs = SPLIT_SOUNDS
    /\ plays >= 3
    /\ playedBefore = SPLIT_SOUNDS[2]
    /\ lastPlayed = SPLIT_SOUNDS[1]
    /\ refLast = SPLIT_SOUNDS[1]

\* Cells of a list that hold the target.
TargetCount(list, target) == Cardinality({i \in 1..Len(list) : list[i] = target})

\* Cells in which two lists of one length differ.
ChangedCells(before, after) == {i \in 1..Len(before) : before[i] # after[i]}

\* C38: addExtraTargetsByChance keeps the length of the list, keeps every
\* target cell a target, and adds at most extraRuns targets; a trial whose
\* coin succeeds turns exactly one non-target cell into the target when
\* there is one, and any other trial changes nothing.
C38_ExtraTargetsOnlyAdd ==
    /\ Len(extraItems) = Len(extraStart)
    /\ \A i \in 1..Len(extraStart) :
          extraStart[i] = extraTarget => extraItems[i] = extraTarget
    /\ TargetCount(extraItems, extraTarget)
          <= TargetCount(extraStart, extraTarget) + extraTrial
    /\ extraTrial <= extraRunsGiven
    /\ Len(extraBefore) = Len(extraItems)
    /\ IF extraTrial >= 1 /\ extraCoin /\ \E i \in 1..Len(extraBefore) : extraBefore[i] # extraTarget
       THEN \E i \in 1..Len(extraBefore) :
               /\ ChangedCells(extraBefore, extraItems) = {i}
               /\ extraBefore[i] # extraTarget
               /\ extraItems[i] = extraTarget
       ELSE extraItems = extraBefore
    /\ extraPc = "returned" =>
          extraItems \in addExtraTargetsByChance(extraStart, extraTarget, extraRunsGiven)

\* C38 witness: a call with the default three runs on a list with one
\* target has returned with every cell the target, its last trial having
\* found no cell left to convert.
C38_Witness ==
    /\ extraPc = "returned"
    /\ extraRunsGiven = DefaultExtraRuns
    /\ Len(extraStart) = 3
    /\ TargetCount(extraStart, extraTarget) = 1
    /\ TargetCount(extraItems, extraTarget) = 3
    /\ extraCoin
    /\ extraBefore = extraItems

====
